---- MODULE Spec2Model ----
(***************************************************************************)
(* Classification, normalization and scoring engine of the stock ranking  *)
(* application (services/asset_classifier.py, indicator_calculator.py,    *)
(* ranking_service.py).                                                    *)
(*                                                                         *)
(* Spec takes update_ranking as one step; SpecSweep takes it commit by     *)
(* commit, for two callers at once; SpecView pages through the ranking     *)
(* with get_current_ranking; SpecNormalize, SpecScore and SpecClassify log *)
(* calls of the pure functions.  SpecQuery reads the table (filter_stocks, *)
(* get_ranking_statistics, compare_stocks); SpecWeights takes requests for *)
(* new weights (routes/api.py, routes/main.py); SpecJobs runs the daily    *)
(* update and the maintenance scripts; SpecUpdater follows the queue of a  *)
(* ContinuousUpdater.                                                      *)
(*                                                                         *)
(* Representation.  A Python float is an exact rational <<n, d>> in lowest *)
(* terms with d > 0; None is the empty tuple <<>>.  A str that the code    *)
(* inspects character by character (a ticker) is a tuple of one-character  *)
(* strings; a dict with string keys is a function on a set of strings; a   *)
(* dict whose iteration order matters (a weight map) is a sequence of      *)
(* <<key, value>> items with distinct keys.                                *)
(***************************************************************************)
EXTENDS Integers, Sequences, FiniteSets, TLC

VARIABLES
    stocks,   \* the stocks table: ticker -> row (models/stock.py)
    nz,       \* calls of normalize_indicator_by_class made so far, and their results
    sc,       \* a call of calculate_score_by_class: its arguments and its result
    cl,       \* calls of classify_asset made so far on one ticker, and their results
    rr,       \* the last operation on the table: its arguments and what it returned
    sw,       \* the update_ranking runs in progress: caller -> position and session
    rd,       \* the pages of get_current_ranking a client has fetched so far
    qr,       \* the last request of a client, for a read of the table or for new weights
    cu        \* a ContinuousUpdater: its tickers, its queue, the batches it has taken

vars == <<stocks, nz, sc, cl, rr, sw, rd, qr, cu>>

----------------------------------------------------------------------------
(* Bounds of the model *)

\* sample raw values of an indicator are k * Unit(indicator), k in -BelowK..MaxK
BelowK == 3
MaxK == 11
\* number of calls logged in nz and in cl
MaxCalls == 2
\* batch sizes of a ContinuousUpdater, and cycles of its queue that are followed
MaxBatch == 4
MaxCycles == 2

----------------------------------------------------------------------------
(* Exact arithmetic on floats *)

None == <<>>

\* SQL NULL in a string column
NULL == "NULL"

Abs(x) == IF x < 0 THEN -x ELSE x

RECURSIVE GCD(_, _)
GCD(a, b) == IF b = 0 THEN a ELSE GCD(b, a % b)

\* the rational n/d, d # 0, in lowest terms with a positive denominator
R(n, d) ==
    LET s == IF d < 0 THEN -1 ELSE 1
        g == GCD(Abs(n), Abs(d))
    IN  <<(s * n) \div g, (s * d) \div g>>

Zero == <<0, 1>>
One == <<1, 1>>

RAdd(a, b) == R(a[1] * b[2] + b[1] * a[2], a[2] * b[2])
RSub(a, b) == R(a[1] * b[2] - b[1] * a[2], a[2] * b[2])
RMul(a, b) == R(a[1] * b[1], a[2] * b[2])
RDiv(a, b) == R(a[1] * b[2], a[2] * b[1])
RLe(a, b) == a[1] * b[2] <= b[1] * a[2]
RLt(a, b) == a[1] * b[2] < b[1] * a[2]
RGe(a, b) == RLe(b, a)

----------------------------------------------------------------------------
(* Strings as tuples of characters *)

Lower == <<"a", "b", "c", "d", "e", "f", "g", "h", "i", "j", "k", "l", "m",
           "n", "o", "p", "q", "r", "s", "t", "u", "v", "w", "x", "y", "z">>
UpperOf == <<"A", "B", "C", "D", "E", "F", "G", "H", "I", "J", "K", "L", "M",
             "N", "O", "P", "Q", "R", "S", "T", "U", "V", "W", "X", "Y", "Z">>

\* str.upper() on one character
UpperChar(c) ==
    IF \E i \in 1..Len(Lower) : Lower[i] = c
    THEN UpperOf[CHOOSE i \in 1..Len(Lower) : Lower[i] = c]
    ELSE c

\* str.upper()
upper(s) == [i \in 1..Len(s) |-> UpperChar(s[i])]

IsSpace(c) == c = " "

\* str.strip(): drop the leading and the trailing whitespace
strip(s) ==
    LET keep == {i \in 1..Len(s) : ~IsSpace(s[i])}
    IN  IF keep = {} THEN <<>>
        ELSE LET lo == CHOOSE i \in keep : \A j \in keep : i <= j
                 hi == CHOOSE i \in keep : \A j \in keep : j <= i
             IN  SubSeq(s, lo, hi)

\* str.startswith(p), str.endswith(p)
startswith(s, p) == Len(s) >= Len(p) /\ SubSeq(s, 1, Len(p)) = p
endswith(s, p) == Len(s) >= Len(p) /\ SubSeq(s, Len(s) - Len(p) + 1, Len(s)) = p

----------------------------------------------------------------------------
(* services/asset_classifier.py *)

ETF_TICKERS ==
    { <<"B", "O", "V", "A", "1", "1">>, <<"B", "R", "A", "X", "1", "1">>,
      <<"I", "V", "V", "B", "1", "1">>, <<"S", "M", "A", "C", "1", "1">>,
      <<"E", "C", "O", "O", "1", "1">>, <<"M", "O", "B", "I", "1", "1">>,
      <<"M", "A", "T", "B", "1", "1">>, <<"X", "B", "O", "C", "1", "1">>,
      <<"I", "S", "U", "S", "1", "1">>, <<"R", "E", "N", "T", "1", "1">>,
      <<"F", "i", "n", "d", "1", "1">>, <<"B", "D", "R", "X", "1", "1">>,
      <<"S", "P", "X", "I", "1", "1">>, <<"S", "M", "L", "L", "1", "1">>,
      <<"D", "I", "V", "O", "1", "1">>, <<"H", "E", "C", "T", "1", "1">>,
      <<"F", "I", "N", "D", "1", "1">>, <<"I", "R", "F", "M", "1", "1">>,
      <<"A", "Ç", "A", "O", "1", "1">>, <<"G", "O", "V", "E", "1", "1">>,
      <<"M", "O", "N", "E", "Y", "1", "1">>, <<"B", "I", "T", "H", "1", "1">>,
      <<"C", "R", "Y", "P", "T", "1", "1">>, <<"E", "W", "Z", "2", "1">>,
      <<"E", "W", "Z", "3", "1">>, <<"W", "D", "O", "F", "1", "1">>,
      <<"W", "D", "O", "V", "1", "1">>, <<"C", "O", "C", "E", "1", "1">>,
      <<"G", "O", "L", "D", "1", "1">>, <<"S", "O", "I", "L", "1", "1">>,
      <<"I", "M", "A", "B", "1", "1">>, <<"F", "I", "X", "A", "1", "1">>,
      <<"X", "P", "L", "G", "1", "1">>, <<"D", "E", "B", "T", "P", "1", "1">> }

ETF_PREFIXES ==
    { <<"B", "O", "V", "A">>, <<"B", "R", "A", "X">>, <<"I", "V", "V", "B">>,
      <<"S", "M", "A", "C">>, <<"E", "C", "O", "O">>, <<"M", "O", "B", "I">>,
      <<"M", "A", "T", "B">>, <<"X", "B", "O", "C">>, <<"I", "S", "U", "S">>,
      <<"R", "E", "N", "T">>, <<"B", "D", "R", "X">>, <<"S", "P", "X", "I">>,
      <<"S", "M", "L", "L">>, <<"D", "I", "V", "O">>, <<"H", "E", "C", "T">>,
      <<"I", "R", "F", "M">>, <<"W", "D", "O", "F">>, <<"W", "D", "O", "V">>,
      <<"C", "O", "C", "E">>, <<"G", "O", "L", "D">>, <<"S", "O", "I", "L">>,
      <<"I", "M", "A", "B">>, <<"F", "I", "X", "A">>, <<"X", "P", "L", "G">>,
      <<"D", "E", "B", "T", "P">> }

_is_etf(ticker) ==
    \/ ticker \in ETF_TICKERS
    \/ \E prefix \in ETF_PREFIXES : startswith(ticker, prefix)

\* Faulty variant of classify_asset: the suffix "11" is tested before the ETF rule.
classify_asset_fii_first(db, ticker0) ==
    LET ticker == strip(upper(ticker0))
    IN  IF endswith(ticker, <<"1", "1">>) THEN "fii"
        ELSE IF _is_etf(ticker) THEN "etf"
        ELSE IF \E suf \in {<<"3", "4">>, <<"3", "5">>, <<"3", "3">>} : endswith(ticker, suf)
             THEN "bdr"
        ELSE "acao"

\* Faulty variant of classify_asset: the suffix "11" is tested before the BDR suffixes
\* and "33" is missing from them.
classify_asset_no33(db, ticker0) ==
    LET ticker == strip(upper(ticker0))
    IN  IF _is_etf(ticker) THEN "etf"
        ELSE IF \E suf \in {<<"3", "4">>, <<"3", "5">>} : endswith(ticker, suf)
             THEN "bdr"
        ELSE IF endswith(ticker, <<"1", "1">>) THEN "fii"
        ELSE "acao"

\* Faulty variant of classify_asset: a ticker that has a row in the table is given the
\* class stored on the row.
classify_asset_stored(db, ticker0) ==
    LET ticker == strip(upper(ticker0))
    IN  IF ticker \in DOMAIN db /\ db[ticker].asset_class # NULL
        THEN db[ticker].asset_class
        ELSE IF _is_etf(ticker) THEN "etf"
        ELSE IF \E suf \in {<<"3", "4">>, <<"3", "5">>, <<"3", "3">>} : endswith(ticker, suf)
             THEN "bdr"
        ELSE IF endswith(ticker, <<"1", "1">>) THEN "fii"
        ELSE "acao"

\* AssetClassifier.classify_asset; db is self.db, which the method does not read
classify_asset(db, ticker0) ==
    LET ticker == strip(upper(ticker0))
    IN  IF _is_etf(ticker) THEN "etf"
        ELSE IF \E suf \in {<<"3", "4">>, <<"3", "5">>, <<"3", "3">>} : endswith(ticker, suf)
             THEN "bdr"
        ELSE IF endswith(ticker, <<"1", "1">>) THEN "fii"
        ELSE IF \E suf \in {<<"3">>, <<"4">>, <<"5">>, <<"6">>} : endswith(ticker, suf)
             THEN "acao"
        ELSE "acao"

SamplePrefixes ==
    { <<>>, <<"B", "O", "V", "A">>, <<"X", "P", "T", "O">>, <<"A", "A", "P", "L">>,
      <<"P", "E", "T", "R">>, <<"R", "E", "N", "T">>, <<"G", "O", "L", "D">>, <<"E", "W", "Z">>,
      <<"F", "I", "N", "D">>, <<"F", "i", "n", "d">>, <<"b", "o", "v", "a">>, <<" ", "x", "p", "t", "o">>,
      <<"M", "O", "N", "E", "Y">>, <<"D", "E", "B", "T", "P">>, <<"D", "E", "B", "T">>, <<"A", "Ç", "A", "O">> }

SampleSuffixes ==
    { <<>>, <<"3">>, <<"4">>, <<"5">>, <<"6">>,
      <<"1", "1">>, <<"3", "3">>, <<"3", "4">>, <<"3", "5">>, <<"2", "1">>,
      <<"3", "1">>, <<"1">>, <<"3", "4", " ">>, <<"F">>, <<"1", "1", "B">> }
----------------------------------------------------------------------------
(* config.py *)

\* Config.DEFAULT_WEIGHTS, in the order of the dict
DEFAULT_WEIGHTS ==
    << <<"dy", R(25, 100)>>, <<"pl", R(20, 100)>>, <<"pvp", R(20, 100)>>,
       <<"roe", R(20, 100)>>, <<"margem_liquida", R(15, 100)>> >>

\* Config.INDICATOR_LIMITS
INDICATOR_LIMITS ==
    [ dy             |-> [min |-> R(0, 1),    max |-> R(20, 100)],
      pl             |-> [min |-> R(0, 1),    max |-> R(50, 1)],
      pvp            |-> [min |-> R(0, 1),    max |-> R(10, 1)],
      roe            |-> [min |-> R(0, 1),    max |-> R(50, 100)],
      margem_liquida |-> [min |-> R(-20, 100), max |-> R(30, 100)] ]

----------------------------------------------------------------------------
(* services/indicator_calculator.py *)

\* dict.get(key): the value, or None when the key is absent
Get(dict, key) == IF key \in DOMAIN dict THEN dict[key] ELSE None

\* dict.get(key, default)
GetOr(dict, key, default) == IF key \in DOMAIN dict THEN dict[key] ELSE default

get_indicators_for_class(asset_class) ==
    IF asset_class = "fii" THEN
        [ dy |-> "div_yield", pvp |-> "pvp", vacancia |-> "vacancia",
          yield_mensal |-> "div_yield", liquidez |-> "liquidity" ]
    ELSE IF asset_class = "etf" THEN
        [ dy |-> "div_yield", desconto_premium |-> "desconto_premium",
          taxa_adm |-> "taxa_adm", liquidez |-> "liquidity", volume |-> "volume" ]
    ELSE IF asset_class = "bdr" THEN
        [ dy |-> "div_yield", pl |-> "pl", pvp |-> "pvp", roe |-> "roe",
          margem_liquida |-> "margem_liquida", roic |-> "roic" ]
    ELSE
        [ dy |-> "div_yield", pl |-> "pl", pvp |-> "pvp", roe |-> "roe",
          margem_liquida |-> "margem_liquida", roic |-> "roic",
          margem_ebit |-> "margem_ebit", liquidez_corr |-> "liquidity" ]

\* Faulty variant of get_weights_for_class: every class is scored with the weights of
\* the caller.
get_weights_for_class_supplied(asset_class, weights) == weights

get_weights_for_class(asset_class, weights) ==
    IF asset_class = "fii" THEN
        << <<"dy", R(40, 100)>>, <<"pvp", R(30, 100)>>,
           <<"vacancia", R(15, 100)>>, <<"liquidez", R(15, 100)>> >>
    ELSE IF asset_class = "etf" THEN
        << <<"dy", R(30, 100)>>, <<"desconto_premium", R(35, 100)>>,
           <<"liquidez", R(20, 100)>>, <<"volume", R(15, 100)>> >>
    ELSE IF asset_class = "bdr" THEN weights
    ELSE weights

get_fii_indicator_limits ==
    [ dy       |-> [min |-> R(0, 1), max |-> R(25, 100)],
      pvp      |-> [min |-> R(0, 1), max |-> R(2, 1)],
      vacancia |-> [min |-> R(0, 1), max |-> R(30, 100)],
      liquidez |-> [min |-> R(0, 1), max |-> R(1000000, 1)] ]

get_etf_indicator_limits ==
    [ dy               |-> [min |-> R(0, 1),     max |-> R(15, 100)],
      desconto_premium |-> [min |-> R(-10, 100), max |-> R(10, 100)],
      taxa_adm         |-> [min |-> R(0, 1),     max |-> R(5, 100)],
      liquidez         |-> [min |-> R(0, 1),     max |-> R(10000000, 1)],
      volume           |-> [min |-> R(0, 1),     max |-> R(10000000, 1)] ]

\* the table normalize_indicator_by_class selects for the class
limits_for_class(asset_class) ==
    IF asset_class = "fii" THEN get_fii_indicator_limits
    ELSE IF asset_class = "etf" THEN get_etf_indicator_limits
    ELSE IF asset_class = "bdr" THEN INDICATOR_LIMITS
    ELSE INDICATOR_LIMITS

\* the indicators normalize_indicator_by_class inverts
LOWER_IS_BETTER == {"pl", "pvp", "psr", "ev_ebit", "ev_ebitda", "taxa_adm"}

\* Faulty variant of min_max_scale: the inverted branch is not clamped below.
min_max_scale_noclamp(value, indicator_type, min_val, max_val) ==
    IF indicator_type \in LOWER_IS_BETTER
    THEN IF RGe(value, max_val) THEN Zero
         ELSE RSub(One, RDiv(RSub(value, min_val), RSub(max_val, min_val)))
    ELSE IF RLe(value, min_val) THEN Zero
         ELSE IF RGe(value, max_val) THEN One
         ELSE RDiv(RSub(value, min_val), RSub(max_val, min_val))

\* Faulty variant of min_max_scale: the direct branch returns 0 at and above max_val,
\* as the inverted branch does.
min_max_scale_nonmonotone(value, indicator_type, min_val, max_val) ==
    IF indicator_type \in LOWER_IS_BETTER
    THEN IF RLe(value, min_val) THEN One
         ELSE IF RGe(value, max_val) THEN Zero
         ELSE RSub(One, RDiv(RSub(value, min_val), RSub(max_val, min_val)))
    ELSE IF RLe(value, min_val) THEN Zero
         ELSE IF RGe(value, max_val) THEN Zero
         ELSE RDiv(RSub(value, min_val), RSub(max_val, min_val))

\* the two branches of normalize_indicator_by_class once the range is known
min_max_scale(value, indicator_type, min_val, max_val) ==
    IF indicator_type \in LOWER_IS_BETTER
    THEN IF RLe(value, min_val) THEN One
         ELSE IF RGe(value, max_val) THEN Zero
         ELSE RSub(One, RDiv(RSub(value, min_val), RSub(max_val, min_val)))
    ELSE IF RLe(value, min_val) THEN Zero
         ELSE IF RGe(value, max_val) THEN One
         ELSE RDiv(RSub(value, min_val), RSub(max_val, min_val))

\* normalize_indicator_by_class with limits as the table of the class
normalize_with_limits(value, indicator_type, limits) ==
    IF indicator_type \notin DOMAIN limits THEN None
    ELSE min_max_scale(value, indicator_type,
                       limits[indicator_type].min, limits[indicator_type].max)

\* Faulty variant of normalize_indicator_by_class: every class uses the default table.
normalize_indicator_by_class_default_table(value, indicator_type, asset_class) ==
    IF value = None THEN None
    ELSE normalize_with_limits(value, indicator_type, INDICATOR_LIMITS)

\* Faulty variant of normalize_indicator_by_class: an indicator without a table entry
\* is scored 0 instead of None.
normalize_indicator_by_class_zero_unknown(value, indicator_type, asset_class) ==
    IF value = None THEN None
    ELSE IF indicator_type \notin DOMAIN limits_for_class(asset_class) THEN Zero
    ELSE normalize_with_limits(value, indicator_type, limits_for_class(asset_class))

normalize_indicator_by_class(value, indicator_type, asset_class) ==
    IF value = None THEN None
    ELSE normalize_with_limits(value, indicator_type, limits_for_class(asset_class))

\* Faulty variant of accumulate: a missing indicator is counted as a zero; its weight is
\* added to total_weight although nothing is added to score.
accumulate_zero_fill(acc, weight, value, normalized) ==
    IF RLe(weight, Zero) THEN acc
    ELSE IF value # None /\ normalized # None
         THEN [score |-> RAdd(acc.score, RMul(normalized, weight)),
               total_weight |-> RAdd(acc.total_weight, weight)]
         ELSE [score |-> acc.score, total_weight |-> RAdd(acc.total_weight, weight)]

\* one pass of the loop of calculate_score_by_class: the item (indicator, weight),
\* the raw value read for it and its normalized value, added to acc = [score, total_weight]
accumulate(acc, weight, value, normalized) ==
    IF RLe(weight, Zero) THEN acc
    ELSE IF value # None
         THEN IF normalized # None
              THEN [score |-> RAdd(acc.score, RMul(normalized, weight)),
                    total_weight |-> RAdd(acc.total_weight, weight)]
              ELSE acc
         ELSE acc

\* stock_data.get(indicators.get(indicator, indicator))
raw_value(stock_data, indicators, indicator) ==
    Get(stock_data, GetOr(indicators, indicator, indicator))

\* the loop of calculate_score_by_class over class_weights.items(), from item i on
RECURSIVE score_loop(_, _, _, _, _, _)
score_loop(stock_data, indicators, class_weights, asset_class, i, acc) ==
    IF i > Len(class_weights) THEN acc
    ELSE score_loop(stock_data, indicators, class_weights, asset_class, i + 1,
             accumulate(acc, class_weights[i][2],
                        raw_value(stock_data, indicators, class_weights[i][1]),
                        normalize_indicator_by_class(
                            raw_value(stock_data, indicators, class_weights[i][1]),
                            class_weights[i][1], asset_class)))

\* Faulty variant of final_score: an asset without a usable indicator scores 0 instead
\* of None.
final_score_zero_default(acc) ==
    IF RLt(Zero, acc.total_weight)
    THEN RMul(RDiv(acc.score, acc.total_weight), R(100, 1))
    ELSE Zero

\* Faulty variant of final_score: the accumulated score is not divided by total_weight.
final_score_no_renorm(acc) ==
    IF RLt(Zero, acc.total_weight)
    THEN RMul(acc.score, R(100, 1))
    ELSE None

\* Faulty variant of final_score: the score is left on the scale 0-1.
final_score_unit_scale(acc) ==
    IF RLt(Zero, acc.total_weight)
    THEN RDiv(acc.score, acc.total_weight)
    ELSE None

\* the end of calculate_score_by_class: the accumulated score over total_weight,
\* on the scale 0-100, or None when total_weight is 0
final_score(acc) ==
    IF RLt(Zero, acc.total_weight)
    THEN RMul(RDiv(acc.score, acc.total_weight), R(100, 1))
    ELSE None

calculate_score_by_class(stock_data, weights, asset_class) ==
    final_score(score_loop(stock_data, get_indicators_for_class(asset_class),
                           get_weights_for_class(asset_class, weights), asset_class, 1,
                           [score |-> Zero, total_weight |-> Zero]))

\* stock_data.get('asset_class', 'acao'), then calculate_score_by_class
calculate_stock_score(stock_data, weights) ==
    calculate_score_by_class(stock_data, weights, GetOr(stock_data, "asset_class", "acao"))

----------------------------------------------------------------------------
(* models/stock.py *)

\* a new Stock row: every column the constructor is not given is NULL, except
\* asset_class, whose Column default is 'acao'
NewStock(ticker, cotacao) ==
    [ ticker         |-> ticker,
      cotacao        |-> cotacao,
      div_yield      |-> None,
      pl             |-> None,
      pvp            |-> None,
      roe            |-> None,
      margem_liquida |-> None,
      roic           |-> None,
      liquidity      |-> None,
      volume         |-> None,
      setor          |-> NULL,
      asset_class    |-> "acao",
      score_final    |-> None,
      rank_posicao   |-> None ]

\* Stock.to_dict, restricted to the columns of the model
to_dict(stock) ==
    [ ticker         |-> stock.ticker,
      cotacao        |-> stock.cotacao,
      pl             |-> stock.pl,
      pvp            |-> stock.pvp,
      div_yield      |-> stock.div_yield,
      roe            |-> stock.roe,
      roic           |-> stock.roic,
      margem_liquida |-> stock.margem_liquida,
      liquidity      |-> stock.liquidity,
      volume         |-> stock.volume,
      setor          |-> stock.setor,
      asset_class    |-> stock.asset_class,
      score_final    |-> stock.score_final,
      rank_posicao   |-> stock.rank_posicao ]

----------------------------------------------------------------------------
(* services/ranking_service.py *)

\* the sequences that list every element of S once
Orderings(S) ==
    {f \in [1..Cardinality(S) -> S] : \A i, j \in 1..Cardinality(S) : i # j => f[i] # f[j]}

\* Faulty variant of ScoreDescOrders: the filter score_final IS NOT NULL is missing;
\* the rows without a score come last.
ScoreDescOrders_unfiltered(db) ==
    {f \in Orderings(DOMAIN db) :
        \A i, j \in 1..Cardinality(DOMAIN db) :
            i < j => \/ db[f[j]].score_final = None
                     \/ /\ db[f[i]].score_final # None
                        /\ RGe(db[f[i]].score_final, db[f[j]].score_final)}

\* the results of ORDER BY score_final DESC over the rows with a score: rows of
\* equal score come in an order the query does not determine
ScoreDescOrders(db) ==
    LET scored == {t \in DOMAIN db : db[t].score_final # None}
    IN  {f \in Orderings(scored) :
            \A i, j \in 1..Cardinality(scored) :
                i < j => RGe(db[f[i]].score_final, db[f[j]].score_final)}

\* RankingService._update_ranking_positions for one result of the query
update_ranking_positions(db, order) ==
    [t \in DOMAIN db |->
        IF \E i \in 1..Len(order) : order[i] = t
        THEN [db[t] EXCEPT !.rank_posicao =
                  R(CHOOSE i \in 1..Len(order) : order[i] = t, 1)]
        ELSE db[t]]

\* the body of the loop of update_ranking: a new score that is not None is
\* written to the row
set_score(stock, new_score) ==
    IF new_score # None THEN [stock EXCEPT !.score_final = new_score] ELSE stock

\* the loop of update_ranking
update_scores(db, weights) ==
    [t \in DOMAIN db |-> set_score(db[t], calculate_stock_score(to_dict(db[t]), weights))]

\* Faulty variant of updated_count: the counter is advanced for every row of the loop.
updated_count_every_row(db, weights) == Cardinality(DOMAIN db)

\* what update_ranking returns: the number of rows whose new score is not None
updated_count(db, weights) ==
    Cardinality({t \in DOMAIN db : calculate_stock_score(to_dict(db[t]), weights) # None})

\* the tables _update_ranking_positions can leave behind
ranked(db) == {update_ranking_positions(db, order) : order \in ScoreDescOrders(db)}

\* the tables RankingService.update_ranking can leave behind
update_ranking_results(db, weights) == ranked(update_scores(db, weights))

\* RankingService.default_weights, used when update_ranking is called without weights
default_weights == DEFAULT_WEIGHTS

----------------------------------------------------------------------------
(* Inputs *)

PETR4 == <<"P", "E", "T", "R", "4">>
XPTO11 == <<"X", "P", "T", "O", "1", "1">>
BOVA11 == <<"B", "O", "V", "A", "1", "1">>

\* the tickers that get a row in the table
Tickers == {PETR4, XPTO11, BOVA11}

\* the tickers handed to classify_asset
SampleTickers == ETF_TICKERS \cup {p \o s : p \in SamplePrefixes, s \in SampleSuffixes}

AssetClasses == {"acao", "fii", "etf", "bdr"}

IndicatorTypes ==
    {"dy", "pl", "pvp", "roe", "margem_liquida", "roic", "margem_ebit", "liquidez_corr",
     "vacancia", "liquidez", "desconto_premium", "taxa_adm", "volume", "psr", "ev_ebitda"}

\* the step between two sample values of an indicator
Unit(indicator_type) ==
    CASE indicator_type = "dy" -> R(5, 100)
      [] indicator_type = "pl" -> R(10, 1)
      [] indicator_type = "roe" -> R(10, 100)
      [] indicator_type = "margem_liquida" -> R(10, 100)
      [] indicator_type = "vacancia" -> R(10, 100)
      [] indicator_type = "desconto_premium" -> R(5, 100)
      [] indicator_type = "taxa_adm" -> R(1, 100)
      [] indicator_type = "liquidez" -> R(500000, 1)
      [] indicator_type = "volume" -> R(5000000, 1)
      [] OTHER -> One

SampleValues(indicator_type) == {RMul(R(k, 1), Unit(indicator_type)) : k \in -BelowK..MaxK}

\* weight maps handed to the engine: the default one, one that sums to 1.5, one
\* with a zero and a negative entry, one whose indicators have no range, one
\* without a positive entry, the empty one, and one on a single indicator
WeightMaps ==
    { DEFAULT_WEIGHTS,
      << <<"dy", R(1, 1)>>, <<"pl", R(50, 100)>> >>,
      << <<"dy", R(0, 1)>>, <<"pl", R(-20, 100)>>, <<"pvp", R(40, 100)>>,
         <<"roe", R(40, 100)>>, <<"margem_liquida", R(40, 100)>> >>,
      << <<"roic", R(50, 100)>>, <<"psr", R(30, 100)>>, <<"liquidez_corr", R(20, 100)>> >>,
      << <<"dy", R(0, 1)>>, <<"pl", R(-1, 1)>> >>,
      << >>,
      << <<"pl", R(1, 1)>> >> }

\* the weight maps handed to update_ranking
RankingWeightMaps ==
    { DEFAULT_WEIGHTS,
      << <<"dy", R(1, 1)>>, <<"pl", R(50, 100)>> >>,
      << <<"dy", R(0, 1)>>, <<"pl", R(-20, 100)>>, <<"pvp", R(40, 100)>>,
         <<"roe", R(40, 100)>>, <<"margem_liquida", R(40, 100)>> >>,
      << <<"pl", R(1, 1)>> >> }

\* a sample value of a column: below every range, inside, above every range
Samples(indicator_type) ==
    {None} \cup {RMul(R(k, 1), Unit(indicator_type)) : k \in {-BelowK, 1, MaxK}}

OneSample(v) == {None, v}

\* the dicts handed to calculate_score_by_class for a class: the columns the
\* class reads vary, the other ones are None; the keys to_dict does not have
\* (vacancia, desconto_premium) are present or absent
ScoreData(asset_class) ==
    LET base(dy, pl, pvp, roe, ml, roic, liq, vol) ==
            [ div_yield |-> dy, pl |-> pl, pvp |-> pvp, roe |-> roe, margem_liquida |-> ml,
              roic |-> roic, liquidity |-> liq, volume |-> vol ]
    IN  IF asset_class = "fii" THEN
            {base(dy, None, pvp, None, None, None, liq, None) :
                dy \in Samples("dy"), pvp \in Samples("pvp"), liq \in OneSample(R(500000, 1))}
            \cup
            {[k \in {"div_yield", "pvp", "liquidity", "vacancia"} |->
                 IF k = "div_yield" THEN dy
                 ELSE IF k = "pvp" THEN pvp
                 ELSE IF k = "liquidity" THEN None
                 ELSE R(10, 100)] :
                dy \in Samples("dy"), pvp \in Samples("pvp")}
        ELSE IF asset_class = "etf" THEN
            {base(dy, None, None, None, None, None, liq, vol) :
                dy \in Samples("dy"), liq \in OneSample(R(500000, 1)),
                vol \in OneSample(R(5000000, 1))}
            \cup
            {[k \in {"div_yield", "volume", "desconto_premium"} |->
                 IF k = "div_yield" THEN dy
                 ELSE IF k = "volume" THEN vol
                 ELSE R(-5, 100)] :
                dy \in Samples("dy"), vol \in OneSample(R(5000000, 1))}
        ELSE
            {base(dy, pl, pvp, roe, ml, roic, liq, None) :
                dy \in Samples("dy"), pl \in Samples("pl"), pvp \in Samples("pvp"),
                roe \in OneSample(R(30, 100)), ml \in OneSample(R(10, 100)),
                roic \in OneSample(R(20, 100)), liq \in OneSample(R(2, 1))}

\* the assets of the two worked examples: an 'acao' with P/L 5.5 and dividend
\* yield 0.132, a 'fii' with dividend yield 0.10 and P/VP 1.0, no other indicator
ExampleData(asset_class) ==
    IF asset_class = "acao" THEN
        {[ div_yield |-> R(132, 1000), pl |-> R(55, 10), pvp |-> None, roe |-> None,
           margem_liquida |-> None, roic |-> None, liquidity |-> None, volume |-> None ]}
    ELSE IF asset_class = "fii" THEN
        {[ div_yield |-> R(10, 100), pl |-> None, pvp |-> R(1, 1), roe |-> None,
           margem_liquida |-> None, roic |-> None, liquidity |-> None, volume |-> None ]}
    ELSE {}

\* what the quote API returns for a ticker: a price, and some of the indicators
QuoteData ==
    {[success |-> TRUE, cotacao |-> R(30, 1), div_yield |-> dy, pl |-> pl] :
        dy \in {None, R(30, 100)}, pl \in {None, R(10, 1)}}

\* a quote with a price and no indicator
PriceOnly == {[success |-> TRUE, cotacao |-> R(30, 1), div_yield |-> None, pl |-> None]}

----------------------------------------------------------------------------
(* Initial states *)

NoNormalize == [indicator_type |-> "", asset_class |-> "", calls |-> <<>>]
NoScore == [stock_data |-> <<>>, weights |-> <<>>, asset_class |-> "", done |-> FALSE, ret |-> None]
NoClassify == [ticker |-> <<>>, calls |-> <<>>]

\* the stocks table is empty
EmptyTable == [t \in {} |-> None]

\* no operation has run on the table, no update_ranking is in progress, no page
\* has been fetched
NoOperation == [op |-> "", weights |-> <<>>, updated_count |-> 0]
NoSweep == <<>>
NoPages == <<>>
\* no client has read the table; no ContinuousUpdater has been made
NoQuery == [op |-> "", args |-> <<>>, ret |-> <<>>]
NoUpdater == <<>>

Init ==
    /\ stocks = EmptyTable
    /\ nz = NoNormalize
    /\ sc = NoScore
    /\ cl = NoClassify
    /\ rr = NoOperation /\ sw = NoSweep /\ rd = NoPages
    /\ qr = NoQuery /\ cu = NoUpdater

InitNormalize ==
    /\ stocks = EmptyTable
    /\ \E indicator_type \in IndicatorTypes, asset_class \in AssetClasses \cup {NULL} :
           nz = [indicator_type |-> indicator_type, asset_class |-> asset_class, calls |-> <<>>]
    /\ sc = NoScore
    /\ cl = NoClassify
    /\ rr = NoOperation /\ sw = NoSweep /\ rd = NoPages
    /\ qr = NoQuery /\ cu = NoUpdater

InitScore ==
    /\ stocks = EmptyTable
    /\ nz = NoNormalize
    /\ \E asset_class \in AssetClasses, weights \in WeightMaps :
           \E stock_data \in ScoreData(asset_class) \cup ExampleData(asset_class) :
               sc = [stock_data |-> stock_data, weights |-> weights,
                     asset_class |-> asset_class, done |-> FALSE, ret |-> None]
    /\ cl = NoClassify
    /\ rr = NoOperation /\ sw = NoSweep /\ rd = NoPages
    /\ qr = NoQuery /\ cu = NoUpdater

InitClassify ==
    /\ stocks = EmptyTable
    /\ nz = NoNormalize
    /\ sc = NoScore
    /\ \E ticker \in SampleTickers : cl = [ticker |-> ticker, calls |-> <<>>]
    /\ rr = NoOperation /\ sw = NoSweep /\ rd = NoPages
    /\ qr = NoQuery /\ cu = NoUpdater

----------------------------------------------------------------------------
(* Actions *)

\* a call of IndicatorCalculator.normalize_indicator_by_class
NormalizeCall(value) ==
    /\ Len(nz.calls) < MaxCalls
    /\ nz' = [nz EXCEPT !.calls =
                 Append(@, [value |-> value,
                            ret |-> normalize_indicator_by_class(value, nz.indicator_type,
                                                                 nz.asset_class)])]
    /\ UNCHANGED <<stocks, sc, cl, rr, sw, rd, qr, cu>>

\* a call of IndicatorCalculator.calculate_score_by_class
ScoreCall ==
    /\ ~sc.done
    /\ sc' = [sc EXCEPT !.done = TRUE,
                        !.ret = calculate_score_by_class(sc.stock_data, sc.weights,
                                                         sc.asset_class)]
    /\ UNCHANGED <<stocks, nz, cl, rr, sw, rd, qr, cu>>

\* a call of AssetClassifier.classify_asset
ClassifyCall ==
    /\ Len(cl.calls) < MaxCalls
    /\ cl' = [cl EXCEPT !.calls = Append(@, classify_asset(stocks, cl.ticker))]
    /\ UNCHANGED <<stocks, nz, sc, rr, sw, rd, qr, cu>>

\* RankingService.update_ranking(weights)
update_ranking(weights) ==
    /\ stocks' \in update_ranking_results(stocks, weights)
    /\ rr' = [op |-> "update_ranking", weights |-> weights,
              updated_count |-> updated_count(stocks, weights)]
    /\ UNCHANGED <<nz, sc, cl, sw, rd, qr, cu>>

\* the table after RotatingUpdater.update_batch has written the quote of one ticker
save_quote(db, ticker, data) ==
    IF ticker \in DOMAIN db
    THEN [db EXCEPT ![ticker] =
             [@ EXCEPT !.cotacao = data.cotacao,
                       !.div_yield = IF data.div_yield # None THEN data.div_yield ELSE @,
                       !.pl = IF data.pl # None THEN data.pl ELSE @]]
    ELSE [t \in DOMAIN db \cup {ticker} |->
             IF t = ticker
             THEN [NewStock(ticker, data.cotacao) EXCEPT
                       !.div_yield = IF data.div_yield \notin {None, Zero}
                                     THEN data.div_yield ELSE @,
                       !.pl = IF data.pl \notin {None, Zero} THEN data.pl ELSE @]
             ELSE db[t]]

\* RotatingUpdater.update_batch([ticker]): the quote is written to the row of the
\* ticker, which is created when missing, and the ranking is updated
update_batch(ticker, data) ==
    /\ data.success /\ data.cotacao \notin {None, Zero}
    /\ stocks' \in update_ranking_results(save_quote(stocks, ticker, data), default_weights)
    /\ rr' = [op |-> "update_batch", weights |-> default_weights,
              updated_count |-> updated_count(save_quote(stocks, ticker, data),
                                              default_weights)]
    /\ UNCHANGED <<nz, sc, cl, sw, rd, qr, cu>>

\* migration add_asset_class.populate_asset_class: the rows whose class is NULL
\* or 'acao' are classified
populate_asset_class ==
    /\ stocks' = [t \in DOMAIN stocks |->
                     IF stocks[t].asset_class \in {NULL, "acao"}
                     THEN [stocks[t] EXCEPT !.asset_class = classify_asset(stocks, stocks[t].ticker)]
                     ELSE stocks[t]]
    /\ rr' = [op |-> "populate_asset_class", weights |-> <<>>, updated_count |-> 0]
    /\ UNCHANGED <<nz, sc, cl, sw, rd, qr, cu>>

----------------------------------------------------------------------------
(* Specifications *)

Next ==
    \/ \E weights \in RankingWeightMaps : update_ranking(weights)
    \/ \E ticker \in Tickers, data \in QuoteData : update_batch(ticker, data)
    \/ populate_asset_class

Spec == Init /\ [][Next]_vars

NextNormalize == \E value \in SampleValues(nz.indicator_type) \cup {None} : NormalizeCall(value)

SpecNormalize == InitNormalize /\ [][NextNormalize]_vars

NextScore == ScoreCall

SpecScore == InitScore /\ [][NextScore]_vars

NextClassify ==
    \/ ClassifyCall
    \/ \E ticker \in Tickers, data \in PriceOnly : update_batch(ticker, data)
    \/ populate_asset_class

SpecClassify == InitClassify /\ [][NextClassify]_vars


----------------------------------------------------------------------------
(* update_ranking step by step, for callers that run at the same time *)

\* the callers of update_ranking: the updater (RotatingUpdater.update_batch) and
\* the weights request (routes/api.py update_weights)
Callers == {"updater", "api"}

\* the tickers and the quotes of the updater, and the weight maps of the weights
\* request, when two callers run at the same time
SweepTickers == {PETR4, XPTO11}

SweepQuotes ==
    {[success |-> TRUE, cotacao |-> R(30, 1), div_yield |-> R(30, 100), pl |-> pl] :
        pl \in {None, R(10, 1)}}

\* the weight maps of the weights request
RequestWeightMaps == { << <<"pl", R(1, 1)>> >> }

\* a caller that is not inside update_ranking: no session
Idle == [pc |-> "idle", weights |-> <<>>, rows |-> <<>>, todo |-> {}, updated_count |-> 0,
         dirty |-> {}, ranks |-> <<>>]

InitSweep ==
    /\ stocks = EmptyTable
    /\ nz = NoNormalize
    /\ sc = NoScore
    /\ cl = NoClassify
    /\ rr = NoOperation
    /\ sw = [p \in Callers |-> Idle]
    /\ rd = NoPages
    /\ qr = NoQuery /\ cu = NoUpdater

\* RotatingUpdater.update_batch([ticker]) up to its session.commit(): the quote
\* is written; update_ranking() is called next
update_batch_commit(ticker, data) ==
    /\ sw["updater"].pc = "idle"
    /\ data.success /\ data.cotacao \notin {None, Zero}
    /\ stocks' = save_quote(stocks, ticker, data)
    /\ sw' = [sw EXCEPT !["updater"] = [Idle EXCEPT !.pc = "call", !.weights = default_weights]]
    /\ UNCHANGED <<nz, sc, cl, rr, rd, qr, cu>>

\* update_ranking, line 139: the session reads every row of the table
update_ranking_begin(p, weights) ==
    /\ \/ sw[p].pc = "call" /\ weights = sw[p].weights
       \/ p = "api" /\ sw[p].pc = "idle" /\ weights \in RequestWeightMaps
    /\ sw' = [sw EXCEPT ![p] = [Idle EXCEPT !.pc = "loop", !.weights = weights,
                                            !.rows = stocks, !.todo = DOMAIN stocks]]
    /\ UNCHANGED <<stocks, nz, sc, cl, rr, rd, qr, cu>>

\* the session after one pass of the loop of update_ranking (lines 142-151) on
\* the row of ticker t: the row is dirty when its score_final has changed
loop_pass(session, t, new_score) ==
    [session EXCEPT !.todo = @ \ {t},
                    !.rows[t] = set_score(@, new_score),
                    !.updated_count = IF new_score # None THEN @ + 1 ELSE @,
                    !.dirty = IF new_score # None /\ new_score # session.rows[t].score_final
                              THEN @ \cup {t} ELSE @]

update_ranking_loop(p, t) ==
    /\ sw[p].pc = "loop" /\ t \in sw[p].todo
    /\ sw' = [sw EXCEPT ![p] =
                 loop_pass(@, t, calculate_stock_score(to_dict(sw[p].rows[t]), sw[p].weights))]
    /\ UNCHANGED <<stocks, nz, sc, cl, rr, rd, qr, cu>>

\* the table after a commit has written column col of the dirty rows of a session
flush(db, rows, dirty, col) ==
    [t \in DOMAIN db |->
        IF t \in dirty
        THEN IF col = "score_final"
             THEN [db[t] EXCEPT !.score_final = rows[t].score_final]
             ELSE [db[t] EXCEPT !.rank_posicao = rows[t].rank_posicao]
        ELSE db[t]]

\* update_ranking, line 154: db.commit() writes the score_final of the dirty rows
update_ranking_commit(p) ==
    /\ sw[p].pc = "loop" /\ sw[p].todo = {}
    /\ stocks' = flush(stocks, sw[p].rows, sw[p].dirty, "score_final")
    /\ sw' = [sw EXCEPT ![p].pc = "positions", ![p].rows = <<>>]
    /\ UNCHANGED <<nz, sc, cl, rr, rd, qr, cu>>

\* _update_ranking_positions, lines 164-167: the session reads the rows with a
\* score in descending order of score and numbers them; a row is dirty when its
\* rank_posicao has changed
update_ranking_positions_begin(p) ==
    /\ sw[p].pc = "positions"
    /\ \E order \in ScoreDescOrders(stocks) :
           sw' = [sw EXCEPT ![p].pc = "positions_commit",
                            ![p].rows = update_ranking_positions(stocks, order),
                            ![p].ranks =
                                {t \in DOMAIN stocks :
                                    update_ranking_positions(stocks, order)[t].rank_posicao
                                        # stocks[t].rank_posicao}]
    /\ UNCHANGED <<stocks, nz, sc, cl, rr, rd, qr, cu>>

\* _update_ranking_positions, line 169: db.commit() writes the rank_posicao of
\* the dirty rows; update_ranking returns updated_count
update_ranking_positions_commit(p) ==
    /\ sw[p].pc = "positions_commit"
    /\ stocks' = flush(stocks, sw[p].rows, sw[p].ranks, "rank_posicao")
    /\ rr' = [op |-> "update_ranking", weights |-> sw[p].weights,
              updated_count |-> sw[p].updated_count]
    /\ sw' = [sw EXCEPT ![p] = Idle]
    /\ UNCHANGED <<nz, sc, cl, rd, qr, cu>>

\* an exception in the loop of update_ranking or in the commit of line 154 (a
\* failed write to the store, the end of the process): the session is closed
\* without a commit
update_ranking_abort(p) ==
    /\ sw[p].pc = "loop"
    /\ sw' = [sw EXCEPT ![p] = Idle]
    /\ rr' = [op |-> "error", weights |-> sw[p].weights, updated_count |-> 0]
    /\ UNCHANGED <<stocks, nz, sc, cl, rd, qr, cu>>

NextSweep ==
    \/ \E ticker \in SweepTickers, data \in SweepQuotes : update_batch_commit(ticker, data)
    \/ \E p \in Callers, weights \in RequestWeightMaps \cup {default_weights} :
           update_ranking_begin(p, weights)
    \/ \E p \in Callers, t \in SweepTickers : update_ranking_loop(p, t)
    \/ \E p \in Callers : update_ranking_commit(p)
    \/ \E p \in Callers : update_ranking_positions_begin(p)
    \/ \E p \in Callers : update_ranking_positions_commit(p)
    \/ \E p \in Callers : update_ranking_abort(p)

SpecSweep == InitSweep /\ [][NextSweep]_vars

----------------------------------------------------------------------------
(* RankingService.get_current_ranking *)

\* the literal of line 62: the number of rows with a score the code assumes
ScoreStocksTotal == 18
\* the literal of line 80: the rank_posicao given to a returned row without a rank
RankPlaceholder == 999999

Min(a, b) == IF a <= b THEN a ELSE b

\* query.offset(offset).limit(limit).all() on the rows that a query returns in
\* the order rows
offset_limit(rows, offset, limit) ==
    SubSeq(rows, offset + 1, Min(offset + limit, Len(rows)))

\* the results of the query of lines 48-73 before its offset and limit: the
\* rows without a score and with a cotacao > 0, ORDER BY cotacao DESC; rows of
\* equal cotacao come in an order the query does not determine
CotacaoDescOrders(db) ==
    LET priced == {t \in DOMAIN db : /\ db[t].score_final = None
                                     /\ db[t].cotacao # None
                                     /\ RLt(Zero, db[t].cotacao)}
    IN  {f \in Orderings(priced) :
            \A i, j \in 1..Cardinality(priced) :
                i < j => RGe(db[f[i]].cotacao, db[f[j]].cotacao)}

\* lines 60-65: the offset into the rows without a score
without_score_offset(offset, found) ==
    IF found = 0 THEN offset - Min(ScoreStocksTotal, offset) ELSE offset

\* Faulty variant of fill_defaults: the returned objects are left as they were read.
fill_defaults_none(stock) == stock

\* lines 76-93: the attributes of a returned object that are None are set to
\* defaults; the session is closed without a commit
fill_defaults(stock) ==
    [stock EXCEPT
        !.score_final = IF @ = None THEN Zero ELSE @,
        !.rank_posicao = IF @ = None THEN R(RankPlaceholder, 1) ELSE @,
        !.cotacao = IF @ = None THEN Zero ELSE @,
        !.div_yield = IF @ = None THEN Zero ELSE @,
        !.pl = IF @ = None THEN Zero ELSE @,
        !.pvp = IF @ = None THEN Zero ELSE @,
        !.roe = IF @ = None THEN Zero ELSE @,
        !.margem_liquida = IF @ = None THEN Zero ELSE @]

\* the objects of the rows whose tickers a query has returned
objects(db, tickers) == [i \in 1..Len(tickers) |-> db[tickers[i]]]

\* lines 44-95, given the rows with a score of this page
complete_page(db, offset, per_page, stocks_with_score, without_score) ==
    IF Len(stocks_with_score) < per_page
    THEN objects(db, stocks_with_score) \o
         [i \in 1..Len(offset_limit(without_score,
                                    without_score_offset(offset, Len(stocks_with_score)),
                                    per_page - Len(stocks_with_score))) |->
             fill_defaults(db[offset_limit(without_score,
                                           without_score_offset(offset, Len(stocks_with_score)),
                                           per_page - Len(stocks_with_score))[i]])]
    ELSE objects(db, stocks_with_score)

\* get_current_ranking(page=page, per_page=per_page) without a sector filter,
\* for one result of each of its two queries
get_current_ranking(db, page, per_page, with_score, without_score) ==
    complete_page(db, (page - 1) * per_page, per_page,
                  offset_limit(with_score, (page - 1) * per_page, per_page), without_score)

\* the pages a client can ask for
MaxPage == 4
MaxPerPage == 2

\* the quotes of the updater before a client pages through the ranking: two
\* prices without indicators, two sets of indicators
ViewQuotes ==
    { [success |-> TRUE, cotacao |-> R(10, 1), div_yield |-> None, pl |-> None],
      [success |-> TRUE, cotacao |-> R(30, 1), div_yield |-> None, pl |-> None],
      [success |-> TRUE, cotacao |-> R(30, 1), div_yield |-> R(30, 100), pl |-> None],
      [success |-> TRUE, cotacao |-> R(30, 1), div_yield |-> R(30, 100), pl |-> R(10, 1)] }

\* what a client keeps of a returned object
seen(stock) ==
    [ticker |-> stock.ticker, score_final |-> stock.score_final,
     rank_posicao |-> stock.rank_posicao, div_yield |-> stock.div_yield]

\* the log of a client after it has fetched one more page with the page size per_page
logged(log, per_page, result) ==
    [per_page |-> per_page,
     pages |-> (IF log = NoPages THEN <<>> ELSE log.pages) \o
               << [i \in 1..Len(result) |-> seen(result[i])] >>]

\* the number of the page a client fetches next
next_page(log) == IF log = NoPages THEN 1 ELSE Len(log.pages) + 1

\* a client fetches the next page of the ranking, always with the same page
\* size; the table is not written
get_current_ranking_call(per_page) ==
    /\ next_page(rd) <= MaxPage
    /\ rd # NoPages => per_page = rd.per_page
    /\ \E with_score \in ScoreDescOrders(stocks), without_score \in CotacaoDescOrders(stocks) :
           rd' = logged(rd, per_page,
                        get_current_ranking(stocks, next_page(rd), per_page,
                                            with_score, without_score))
    /\ UNCHANGED <<stocks, nz, sc, cl, rr, sw, qr, cu>>

\* the updater fills the table; then a client pages through it
NextView ==
    \/ rd = NoPages /\ \E ticker \in Tickers, data \in ViewQuotes : update_batch(ticker, data)
    \/ \E per_page \in 1..MaxPerPage : get_current_ranking_call(per_page)

SpecView == Init /\ [][NextView]_vars
----------------------------------------------------------------------------
(* scripts/daily_update.py: DailyUpdater._save_to_database *)

\* stock_data.get(key) for a string column
GetStr(dict, key) == IF key \in DOMAIN dict THEN dict[key] ELSE NULL

\* DailyUpdater._update_stock_data: every column of the list is overwritten with
\* what the dict has under its key, None when the key is missing
update_stock_data(stock, stock_data) ==
    [stock EXCEPT
        !.setor = GetStr(stock_data, "setor"),
        !.cotacao = Get(stock_data, "cotacao"),
        !.pl = Get(stock_data, "pl"),
        !.pvp = Get(stock_data, "pvp"),
        !.div_yield = Get(stock_data, "div_yield"),
        !.roe = Get(stock_data, "roe"),
        !.roic = Get(stock_data, "roic"),
        !.margem_liquida = Get(stock_data, "mrg_liq"),
        !.liquidity = Get(stock_data, "liquidez_corr")]

\* the loop of _save_to_database from item i on: the row of the ticker is
\* updated, or a new row is added for it
RECURSIVE save_loop(_, _, _)
save_loop(db, stocks_data, i) ==
    IF i > Len(stocks_data) THEN db
    ELSE save_loop(
             [t \in DOMAIN db \cup {stocks_data[i].ticker} |->
                 IF t = stocks_data[i].ticker
                 THEN update_stock_data(IF t \in DOMAIN db THEN db[t] ELSE NewStock(t, None),
                                        stocks_data[i])
                 ELSE db[t]],
             stocks_data, i + 1)

\* the table after DailyUpdater._save_to_database(stocks_data) has committed
save_to_database_result(db, stocks_data) == save_loop(db, stocks_data, 1)

----------------------------------------------------------------------------
(* RankingService.filter_stocks, get_ranking_statistics, compare_stocks *)

\* IndicatorCalculator._meets_criteria
_meets_criteria(value, min_val, max_val) ==
    IF value = None THEN FALSE
    ELSE IF min_val # None /\ RLt(value, min_val) THEN FALSE
    ELSE IF max_val # None /\ RLt(max_val, value) THEN FALSE
    ELSE TRUE

\* `if sector:` : a sector that is None or empty adds no filter
sector_given(sector) == sector \notin {NULL, ""}

\* Faulty variant of filter_where: a NULL column passes a comparison.
filter_where_null_passes(row, args) ==
    /\ args.min_dy # None => (row.div_yield = None \/ RGe(row.div_yield, args.min_dy))
    /\ args.max_pl # None => (row.pl = None \/ RLe(row.pl, args.max_pl))
    /\ args.max_pvp # None => (row.pvp = None \/ RLe(row.pvp, args.max_pvp))
    /\ args.min_roe # None => (row.roe = None \/ RGe(row.roe, args.min_roe))
    /\ sector_given(args.sector) => (row.setor # NULL /\ row.setor = args.sector)

\* the WHERE clause that filter_stocks builds on top of score_final IS NOT NULL:
\* a comparison with a NULL column is not true
filter_where(row, args) ==
    /\ args.min_dy # None => (row.div_yield # None /\ RGe(row.div_yield, args.min_dy))
    /\ args.max_pl # None => (row.pl # None /\ RLe(row.pl, args.max_pl))
    /\ args.max_pvp # None => (row.pvp # None /\ RLe(row.pvp, args.max_pvp))
    /\ args.min_roe # None => (row.roe # None /\ RGe(row.roe, args.min_roe))
    /\ sector_given(args.sector) => (row.setor # NULL /\ row.setor = args.sector)

\* the rows of a query result, in its order, that pass a WHERE clause
RECURSIVE where(_, _, _, _)
where(db, order, args, i) ==
    IF i > Len(order) THEN <<>>
    ELSE (IF filter_where(db[order[i]], args) THEN <<order[i]>> ELSE <<>>)
         \o where(db, order, args, i + 1)

\* RankingService.filter_stocks for one result of ORDER BY score_final DESC,
\* with limit >= 0
filter_stocks(db, args, order) ==
    objects(db, offset_limit(where(db, order, args, 1), 0, args.limit))

\* the rows that get_ranking_statistics counts: cotacao IS NOT NULL AND cotacao > 0
rows_priced(db) == {t \in DOMAIN db : db[t].cotacao # None /\ RLt(Zero, db[t].cotacao)}

\* the rows with a score
rows_with_score(db) == {t \in DOMAIN db : db[t].score_final # None}

\* `stock.setor or 'Não Classificado'`
sector_name(row) == IF row.setor \in {NULL, ""} THEN "Não Classificado" ELSE row.setor

\* `stock.score_final or 0`
score_or_zero(row) == IF row.score_final = None THEN Zero ELSE row.score_final

\* sum(score_final or 0) over the rows S
RECURSIVE sum_scores(_, _)
sum_scores(db, S) ==
    IF S = {} THEN Zero
    ELSE LET t == CHOOSE t \in S : TRUE
         IN  RAdd(score_or_zero(db[t]), sum_scores(db, S \ {t}))

\* max and min of score_final or 0 over the rows S, S not empty
max_score(db, S) ==
    score_or_zero(db[CHOOSE t \in S : \A u \in S : RGe(score_or_zero(db[t]), score_or_zero(db[u]))])
min_score(db, S) ==
    score_or_zero(db[CHOOSE t \in S : \A u \in S : RLe(score_or_zero(db[t]), score_or_zero(db[u]))])

\* sorted(scores)[len(scores) // 2] over the rows with a score
median_score(db) ==
    LET order == CHOOSE f \in ScoreDescOrders(db) : TRUE
    IN  db[order[Len(order) - (Len(order) \div 2)]].score_final

\* the rows with a price of one sector
sector_rows(db, name) == {t \in rows_priced(db) : sector_name(db[t]) = name}

sector_names(db) == {sector_name(db[t]) : t \in rows_priced(db)}

\* one entry of sector_stats: every row with a price counts, a row without a
\* score with the score 0
sector_entry(db, name) ==
    [ name      |-> name,
      count     |-> Cardinality(sector_rows(db, name)),
      avg_score |-> RDiv(sum_scores(db, sector_rows(db, name)),
                         R(Cardinality(sector_rows(db, name)), 1)),
      top_score |-> max_score(db, sector_rows(db, name)) ]

\* the slice [:10] of the sector list
TopSectors == 10

\* sector_stats after sort(key=avg_score, reverse=True): the sort is stable and
\* the list was built in the order in which the query without ORDER BY returned
\* the first row of each sector, so sectors of equal avg_score come in any order
sector_stats_sorted(db) ==
    {[i \in 1..Min(TopSectors, Len(f)) |-> sector_entry(db, f[i])] :
        f \in {g \in Orderings(sector_names(db)) :
                  \A i, j \in 1..Cardinality(sector_names(db)) :
                      i < j => RGe(sector_entry(db, g[i]).avg_score,
                                   sector_entry(db, g[j]).avg_score)}}

\* the sector list when no row has a score: names and counts, in the order of
\* the query
sector_counts(db) ==
    {[i \in 1..Min(TopSectors, Len(f)) |->
         [name |-> f[i], count |-> Cardinality(sector_rows(db, f[i]))]] :
        f \in Orderings(sector_names(db))}

\* the dicts RankingService.get_ranking_statistics can return
get_ranking_statistics(db) ==
    IF rows_priced(db) = {} THEN
        {[total_stocks |-> 0, avg_score |-> Zero, median_score |-> Zero, top_score |-> Zero,
          sectors |-> <<>>]}
    ELSE IF rows_with_score(db) = {} THEN
        {[total_stocks |-> Cardinality(rows_priced(db)), avg_score |-> Zero, median_score |-> Zero,
          top_score |-> Zero, sectors |-> sectors] : sectors \in sector_counts(db)}
    ELSE
        {[total_stocks |-> Cardinality(rows_priced(db)),
          avg_score |-> RDiv(sum_scores(db, rows_with_score(db)), R(Cardinality(rows_with_score(db)), 1)),
          median_score |-> median_score(db),
          top_score |-> max_score(db, rows_with_score(db)),
          bottom_score |-> min_score(db, rows_with_score(db)),
          sectors |-> sectors] : sectors \in sector_stats_sorted(db)}

\* the loop of compare_stocks: the dicts of the tickers that get_stock_by_ticker
\* finds, in the order of the list
RECURSIVE comparison_data(_, _, _)
comparison_data(db, tickers, i) ==
    IF i > Len(tickers) THEN <<>>
    ELSE (IF tickers[i] \in DOMAIN db THEN <<to_dict(db[tickers[i]])>> ELSE <<>>)
         \o comparison_data(db, tickers, i + 1)

\* list.sort(key=score_final, reverse=True) on floats: descending, and stable
sort_by_score_desc(data) ==
    LET p == CHOOSE f \in Orderings(1..Len(data)) :
                 \A i, j \in 1..Len(data) :
                     i < j => \/ RLt(data[f[j]].score_final, data[f[i]].score_final)
                              \/ /\ data[f[j]].score_final = data[f[i]].score_final
                                 /\ f[i] < f[j]
    IN  [i \in 1..Len(data) |-> data[p[i]]]

\* the sort of compare_stocks on a list of dicts: x.get('score_final', 0) is None
\* for a dict whose score_final is None, the key being present; a list of two or
\* more keys with a None among them cannot be ordered and the sort raises
\* TypeError
sort_comparison(data) ==
    IF Len(data) >= 2 /\ \E i \in 1..Len(data) : data[i].score_final = None
    THEN [raised |-> "TypeError", data |-> <<>>]
    ELSE IF Len(data) <= 1 THEN [raised |-> "", data |-> data]
    ELSE [raised |-> "", data |-> sort_by_score_desc(data)]

\* RankingService.compare_stocks(tickers)
compare_stocks(db, tickers) == sort_comparison(comparison_data(db, tickers, 1))

----------------------------------------------------------------------------
(* Clients of the read operations *)

\* what the scraper hands to _save_to_database for a ticker; a missing key is a
\* value the source did not have
ScrapedData ==
    { [ticker |-> PETR4, setor |-> "Energia", cotacao |-> R(30, 1), div_yield |-> R(10, 100),
       pl |-> R(10, 1), roe |-> R(30, 100)],
      [ticker |-> PETR4, setor |-> "Energia", cotacao |-> R(30, 1), pl |-> R(30, 1),
       pvp |-> R(1, 1)],
      [ticker |-> XPTO11, setor |-> "Energia", cotacao |-> R(30, 1), div_yield |-> R(10, 100)],
      [ticker |-> XPTO11, setor |-> "Bancos", div_yield |-> R(5, 100), roe |-> R(10, 100)],
      [ticker |-> BOVA11, cotacao |-> R(30, 1)],
      [ticker |-> BOVA11, setor |-> "Bancos", cotacao |-> R(30, 1), pl |-> R(10, 1),
       roe |-> R(30, 100)] }

\* the lists of dicts of one run of the scraper
ScrapedLists == {<<d>> : d \in ScrapedData}

\* the largest limit of a filter request
MaxLimit == 2

\* the requests to filter_stocks
FilterArgs ==
    {[min_dy |-> min_dy, max_pl |-> max_pl, max_pvp |-> max_pvp, min_roe |-> min_roe,
      sector |-> sector, limit |-> limit] :
        min_dy \in {None, R(10, 100)}, max_pl \in {None, R(10, 1)},
        max_pvp \in {None, R(1, 1)}, min_roe \in {None, R(30, 100)},
        sector \in {NULL, "", "Energia"}, limit \in 1..MaxLimit}

\* the lists of tickers of a comparison: two tickers, of the table or not
CompareLists ==
    {<<t, u>> : t \in Tickers, u \in Tickers \cup {<<"V", "A", "L", "E", "3">>}}

\* DailyUpdater._save_to_database(stocks_data)
save_to_database(stocks_data) ==
    /\ stocks' = save_to_database_result(stocks, stocks_data)
    /\ rr' = [op |-> "save_to_database", weights |-> <<>>, updated_count |-> Len(stocks_data)]
    /\ UNCHANGED <<nz, sc, cl, sw, rd, qr, cu>>

\* a client calls filter_stocks
filter_stocks_call(args) ==
    /\ \E order \in ScoreDescOrders(stocks) :
           qr' = [op |-> "filter_stocks", args |-> args, ret |-> filter_stocks(stocks, args, order)]
    /\ UNCHANGED <<stocks, nz, sc, cl, rr, sw, rd, cu>>

\* a client calls get_ranking_statistics
get_ranking_statistics_call ==
    /\ \E stats \in get_ranking_statistics(stocks) :
           qr' = [op |-> "get_ranking_statistics", args |-> <<>>, ret |-> stats]
    /\ UNCHANGED <<stocks, nz, sc, cl, rr, sw, rd, cu>>

\* a client calls compare_stocks
compare_stocks_call(tickers) ==
    /\ qr' = [op |-> "compare_stocks", args |-> tickers, ret |-> compare_stocks(stocks, tickers)]
    /\ UNCHANGED <<stocks, nz, sc, cl, rr, sw, rd, cu>>

\* the daily updater and update_ranking fill the table; then a client reads it:
\* a read leaves the table as it is, so every read is the first one of a behaviour
NextQuery ==
    /\ qr = NoQuery
    /\ \/ \E stocks_data \in ScrapedLists : save_to_database(stocks_data)
       \/ update_ranking(default_weights)
       \/ \E args \in FilterArgs : filter_stocks_call(args)
       \/ get_ranking_statistics_call
       \/ \E tickers \in CompareLists : compare_stocks_call(tickers)

SpecQuery == Init /\ [][NextQuery]_vars
----------------------------------------------------------------------------
(* routes/api.py update_weights, routes/main.py update_config *)

\* required_fields of update_weights, weight_fields of update_config
required_fields == <<"dy", "pl", "pvp", "roe", "margem_liquida">>

\* abs() of a float
RAbs(x) == IF RLt(x, Zero) THEN RSub(Zero, x) ELSE x

\* the tolerance of the check of the sum
SumTolerance == R(1, 100)

\* abs(total_weight - 1.0) > 0.01
sum_rejected(total_weight) == RLt(SumTolerance, RAbs(RSub(total_weight, One)))

\* what a handler answers: whether the request passed, the HTTP status, the
\* weights handed to update_ranking and the count it returned
Answer(accepted, status, weights, count) ==
    [accepted |-> accepted, status |-> status, weights |-> weights, updated_count |-> count]

\* the loop of update_weights over required_fields from field i on, with the
\* weights and the total collected so far: a missing field and a negative weight
\* end the request with 400; at the end the sum is checked
RECURSIVE validate_weights(_, _, _, _)
validate_weights(data, i, weights, total_weight) ==
    IF i > Len(required_fields) THEN
        IF sum_rejected(total_weight) THEN Answer(FALSE, 400, <<>>, 0) ELSE Answer(TRUE, 200, weights, 0)
    ELSE IF required_fields[i] \notin DOMAIN data THEN Answer(FALSE, 400, <<>>, 0)
    ELSE IF RLt(data[required_fields[i]], Zero) THEN Answer(FALSE, 400, <<>>, 0)
    ELSE validate_weights(data, i + 1,
                          Append(weights, <<required_fields[i], data[required_fields[i]]>>),
                          RAdd(total_weight, data[required_fields[i]]))

\* the loop of update_config over weight_fields from field i on: a field that is
\* missing or negative is passed over; at the end the sum of the weights kept is
\* checked
RECURSIVE collect_weights(_, _, _, _)
collect_weights(form, i, weights, total_weight) ==
    IF i > Len(required_fields) THEN
        IF sum_rejected(total_weight) THEN Answer(FALSE, 302, <<>>, 0) ELSE Answer(TRUE, 302, weights, 0)
    ELSE IF required_fields[i] \in DOMAIN form /\ RGe(form[required_fields[i]], Zero)
    THEN collect_weights(form, i + 1,
                         Append(weights, <<required_fields[i], form[required_fields[i]]>>),
                         RAdd(total_weight, form[required_fields[i]]))
    ELSE collect_weights(form, i + 1, weights, total_weight)

\* a handler that has checked a request: a request that did not pass is answered
\* and nothing else is done; for one that passed, update_ranking(weights) runs
handle(op, request, checked) ==
    IF ~checked.accepted
    THEN /\ qr' = [op |-> op, args |-> request, ret |-> checked]
         /\ UNCHANGED <<stocks, nz, sc, cl, rr, sw, rd, cu>>
    ELSE /\ stocks' \in update_ranking_results(stocks, checked.weights)
         /\ rr' = [op |-> "update_ranking", weights |-> checked.weights,
                   updated_count |-> updated_count(stocks, checked.weights)]
         /\ qr' = [op |-> op, args |-> request,
                   ret |-> Answer(TRUE, checked.status, checked.weights,
                                 updated_count(stocks, checked.weights))]
         /\ UNCHANGED <<nz, sc, cl, sw, rd, cu>>

\* POST /api/config/weights with the JSON object data
update_weights(data) ==
    IF DOMAIN data = {}
    THEN handle("update_weights", data, Answer(FALSE, 400, <<>>, 0))
    ELSE handle("update_weights", data, validate_weights(data, 1, <<>>, Zero))

\* POST /config with the form fields weight_<field>
update_config(form) ==
    handle("update_config", form, collect_weights(form, 1, <<>>, Zero))

\* the weights of a request: a value for some of the fields
Request(dy, pl, pvp, roe, margem_liquida) ==
    LET all == [dy |-> dy, pl |-> pl, pvp |-> pvp, roe |-> roe, margem_liquida |-> margem_liquida]
    IN  [f \in {g \in DOMAIN all : all[g] # None} |-> all[f]]

\* the requests: the default weights; a sum inside and a sum outside the
\* tolerance; a sum of 1.5; a negative weight next to weights that sum to 1.0; a
\* negative weight in a sum of 1.0; a missing field next to weights that sum to
\* 1.0; a missing field in a sum of 0.8; no field
WeightRequests ==
    { Request(R(25, 100), R(20, 100), R(20, 100), R(20, 100), R(15, 100)),
      Request(R(255, 1000), R(20, 100), R(20, 100), R(20, 100), R(15, 100)),
      Request(R(27, 100), R(20, 100), R(20, 100), R(20, 100), R(15, 100)),
      Request(R(75, 100), R(20, 100), R(20, 100), R(20, 100), R(15, 100)),
      Request(R(-50, 100), R(25, 100), R(25, 100), R(25, 100), R(25, 100)),
      Request(R(-25, 100), R(50, 100), R(25, 100), R(25, 100), R(25, 100)),
      Request(None, R(25, 100), R(25, 100), R(25, 100), R(25, 100)),
      Request(None, R(20, 100), R(20, 100), R(20, 100), R(20, 100)),
      Request(None, None, None, None, None) }

\* the updater fills the table; then clients send requests for new weights
NextWeights ==
    \/ qr = NoQuery /\ \E ticker \in SweepTickers, data \in QuoteData : update_batch(ticker, data)
    \/ \E data \in WeightRequests : update_weights(data)
    \/ \E form \in WeightRequests : update_config(form)

SpecWeights == Init /\ [][NextWeights]_vars
----------------------------------------------------------------------------
(* scripts/daily_update.py: DailyUpdater._calculate_ranking, run_full_update *)

\* the dict literal of _calculate_ranking, which it binds to weights and, in the
\* same statement, to the indicator_limits of its calculator
daily_weights ==
    << <<"dy", R(25, 100)>>, <<"pl", R(20, 100)>>, <<"pvp", R(20, 100)>>,
       <<"roe", R(20, 100)>>, <<"margem_liquida", R(15, 100)>> >>

\* a pass of the loop of calculate_score_by_class of that calculator raises
\* TypeError: for a class other than 'fii' and 'etf' the limits are
\* self.indicator_limits, now the dict of weights, so that limits[indicator] is a
\* float and limit_config['min'] cannot be evaluated; this happens in the first
\* pass that has a positive weight and a value
daily_raises(stock_data, weights, asset_class) ==
    /\ asset_class \notin {"fii", "etf"}
    /\ \E i \in 1..Len(weights) :
           /\ RLt(Zero, weights[i][2])
           /\ raw_value(stock_data, get_indicators_for_class(asset_class), weights[i][1]) # None

\* calculate_stock_score of the calculator of the DailyUpdater: an exception in
\* the loop is caught by calculate_score_by_class, which returns None; without
\* one, no limit of self.indicator_limits has been read
calculate_stock_score_daily(stock_data, weights) ==
    IF daily_raises(stock_data, weights, GetOr(stock_data, "asset_class", "acao"))
    THEN None
    ELSE calculate_stock_score(stock_data, weights)

\* the loop of _calculate_ranking
daily_scores(db) ==
    [t \in DOMAIN db |->
        set_score(db[t], calculate_stock_score_daily(to_dict(db[t]), daily_weights))]

\* calculated_count of _calculate_ranking
calculated_count(db) ==
    Cardinality({t \in DOMAIN db :
                    calculate_stock_score_daily(to_dict(db[t]), daily_weights) # None})

\* the tables DailyUpdater._calculate_ranking can leave behind: the rows with a
\* score are sorted by score, descending, and numbered; the list was read
\* without ORDER BY, so rows of equal score come in any order
calculate_ranking_results(db) == ranked(daily_scores(db))

\* DailyUpdater.run_full_update with the list stocks_data of the scraper: the
\* list is saved, then _calculate_ranking runs
run_full_update(stocks_data) ==
    /\ Len(stocks_data) > 0
    /\ stocks' \in calculate_ranking_results(save_to_database_result(stocks, stocks_data))
    /\ rr' = [op |-> "run_full_update", weights |-> daily_weights,
              updated_count |-> calculated_count(save_to_database_result(stocks, stocks_data))]
    /\ UNCHANGED <<nz, sc, cl, sw, rd, qr, cu>>

----------------------------------------------------------------------------
(* scripts/maintenance/fix_scores.py, recalculate_all_scores.py *)

\* the loop of fix_scores.main over the rows without a score
fixed_scores(db) ==
    [t \in DOMAIN db |->
        IF db[t].score_final = None
        THEN set_score(db[t], calculate_stock_score(to_dict(db[t]), DEFAULT_WEIGHTS))
        ELSE db[t]]

\* fix_scores.main: the rows without a score are scored under the default
\* weights; every row with a score is ranked
fix_scores ==
    /\ stocks' \in ranked(fixed_scores(stocks))
    /\ rr' = [op |-> "fix_scores", weights |-> DEFAULT_WEIGHTS, updated_count |-> 0]
    /\ UNCHANGED <<nz, sc, cl, sw, rd, qr, cu>>

\* recalculate_all_scores.main: every row is scored under the default weights and
\* the rows with a score are ranked, as in update_ranking, by the script itself
recalculate_all_scores ==
    /\ stocks' \in ranked(update_scores(stocks, DEFAULT_WEIGHTS))
    /\ rr' = [op |-> "recalculate_all_scores", weights |-> DEFAULT_WEIGHTS,
              updated_count |-> updated_count(stocks, DEFAULT_WEIGHTS)]
    /\ UNCHANGED <<nz, sc, cl, sw, rd, qr, cu>>

\* the quotes of the updater next to the jobs
JobQuotes ==
    {[success |-> TRUE, cotacao |-> R(30, 1), div_yield |-> R(30, 100), pl |-> None]}

\* the lists of the scraper next to the other jobs
JobLists == {<<d>> : d \in {e \in ScrapedData : e.ticker \in SweepTickers}}

\* the updater, the daily job, the maintenance scripts and update_ranking work
\* on the table
NextJobs ==
    \/ \E ticker \in SweepTickers, data \in JobQuotes : update_batch(ticker, data)
    \/ \E stocks_data \in JobLists : run_full_update(stocks_data)
    \/ fix_scores
    \/ recalculate_all_scores
    \/ populate_asset_class
    \/ update_ranking(default_weights)

SpecJobs == Init /\ [][NextJobs]_vars
----------------------------------------------------------------------------
(* ContinuousUpdater (scripts/schedulers/continuous_updater.py) *)

\* ContinuousUpdater.all_tickers and batch_size as __init__ sets them
all_tickers ==
    << PETR4, <<"V", "A", "L", "E", "3">>, <<"I", "T", "U", "B", "4">>,
       <<"B", "B", "D", "C", "4">>, <<"W", "E", "G", "E", "3">>,
       <<"G", "G", "B", "R", "4">>, <<"A", "B", "E", "V", "3">>,
       <<"M", "G", "L", "U", "3">>, <<"B", "3", "S", "A", "3">>,
       <<"B", "B", "A", "S", "3">>, <<"S", "A", "N", "B", "1", "1">>,
       <<"R", "A", "I", "L", "3">>, <<"S", "U", "Z", "B", "3">>,
       <<"K", "L", "B", "N", "1", "1">>, <<"L", "R", "E", "N", "3">>,
       <<"R", "A", "D", "L", "3">>, <<"E", "L", "E", "T", "3">>,
       <<"E", "N", "B", "R", "3">> >>

batch_size == 3

\* the updater after __init__, for a list of tickers and a batch size: the queue
\* is a copy of the list; batches logs what get_next_batch has returned
NewUpdater(tickers, size) ==
    [all_tickers |-> tickers, batch_size |-> size, update_queue |-> tickers,
     batches |-> <<>>]

\* queue[:n] and queue[n:]
slice_to(queue, n) == SubSeq(queue, 1, IF n < Len(queue) THEN n ELSE Len(queue))
slice_from_skipping(queue, n) == SubSeq(queue, n + 2, Len(queue))
slice_from(queue, n) == SubSeq(queue, n + 1, Len(queue))

\* the updater after the batch has been cut from the front of the queue
cut_batch(updater, queue) ==
    [updater EXCEPT !.update_queue = slice_from(queue, updater.batch_size),
                    !.batches = Append(@, slice_to(queue, updater.batch_size))]

\* get_next_batch: an empty queue is refilled from all_tickers, then the batch is
\* cut; the batch returned is the last of .batches
get_next_batch(updater) ==
    cut_batch(updater, IF updater.update_queue = <<>> THEN updater.all_tickers
                       ELSE updater.update_queue)

last_batch(updater) == updater.batches[Len(updater.batches)]

\* update_continuous_cycle, lines 174-179: the next batch; after an empty one the
\* queue is refilled and the next batch is taken again
cycle_batch(updater) ==
    IF last_batch(get_next_batch(updater)) = <<>>
    THEN get_next_batch([get_next_batch(updater) EXCEPT !.update_queue = updater.all_tickers])
    ELSE get_next_batch(updater)

\* what update_single_stock obtains for a ticker: nothing, a price, or a price
\* and a dividend yield
UpdaterQuotes ==
    {[success |-> FALSE, cotacao |-> None, div_yield |-> None, pl |-> None],
     [success |-> TRUE, cotacao |-> R(31, 1), div_yield |-> None, pl |-> None],
     [success |-> TRUE, cotacao |-> R(31, 1), div_yield |-> R(30, 100), pl |-> None]}

\* update_batch_stocks, line 91: data and data.get('success') and data.get('cotacao')
obtained(data) == data.success /\ data.cotacao \notin {None, Zero}

\* the tickers of a batch that have a row in the table
in_table(db, batch) == {batch[i] : i \in 1..Len(batch)} \cap DOMAIN db

\* update_batch_stocks, lines 93-108: the row of a ticker after its data has been
\* written; an indicator is written when data.get(field) is truthy
write_data(row, data) ==
    [row EXCEPT !.cotacao = data.cotacao,
                !.div_yield = IF data.div_yield \notin {None, Zero} THEN data.div_yield ELSE @,
                !.pl = IF data.pl \notin {None, Zero} THEN data.pl ELSE @]

\* the table at the commit of update_batch_stocks: fetched gives the data of the
\* tickers of the batch that have a row; a ticker without a row is reported
\* 'not_found_in_db' and nothing is written for it
batch_written(db, fetched) ==
    [t \in DOMAIN db |->
        IF t \in DOMAIN fetched /\ obtained(fetched[t]) THEN write_data(db[t], fetched[t])
        ELSE db[t]]

successful_updates(fetched) == {t \in DOMAIN fetched : obtained(fetched[t])}

\* number of get_next_batch calls that empty a full queue
cycle_calls(updater) ==
    (Len(updater.all_tickers) + updater.batch_size - 1) \div updater.batch_size

\* the updater may take another batch: it has completed fewer than MaxCycles cycles
MayTake == Len(cu.batches) < MaxCycles * cycle_calls(cu)

\* a caller takes the next batch
get_next_batch_call ==
    /\ MayTake
    /\ cu' = get_next_batch(cu)
    /\ UNCHANGED <<stocks, nz, sc, cl, rr, sw, rd, qr>>

\* update_continuous_cycle: the next batch is taken and update_batch_stocks
\* updates it; update_ranking runs when a row has been written
update_continuous_cycle(fetched) ==
    /\ MayTake
    /\ cu' = cycle_batch(cu)
    /\ stocks' \in IF successful_updates(fetched) # {}
                   THEN update_ranking_results(batch_written(stocks, fetched), default_weights)
                   ELSE {stocks}
    /\ rr' = [op |-> "update_continuous_cycle", weights |-> default_weights,
              updated_count |-> IF successful_updates(fetched) # {}
                                THEN updated_count(batch_written(stocks, fetched), default_weights)
                                ELSE 0]
    /\ UNCHANGED <<nz, sc, cl, sw, rd, qr>>

\* a fresh ContinuousUpdater on an empty table.  __init__ makes it with the 18
\* tickers and batch_size 3; the attributes are public, and the model also starts
\* it with a shorter list and with another batch size, so that a last batch
\* shorter than batch_size occurs
InitUpdater ==
    /\ stocks = EmptyTable
    /\ nz = NoNormalize
    /\ sc = NoScore
    /\ cl = NoClassify
    /\ rr = NoOperation /\ sw = NoSweep /\ rd = NoPages
    /\ qr = NoQuery
    /\ \E n \in 1..Len(all_tickers), size \in 1..MaxBatch :
           cu = NewUpdater(SubSeq(all_tickers, 1, n), size)

NextUpdater ==
    \/ \E data \in PriceOnly : cu.batches = <<>> /\ update_batch(PETR4, data)
    \/ get_next_batch_call
    \/ \E fetched \in [in_table(stocks, last_batch(cycle_batch(cu))) -> UpdaterQuotes] :
           update_continuous_cycle(fetched)

SpecUpdater == InitUpdater /\ [][NextUpdater]_vars
----------------------------------------------------------------------------
(* Properties of the scoring engine *)

\* the sum of the rationals f[x], x in S
RECURSIVE RSum(_, _)
RSum(f, S) ==
    IF S = {} THEN Zero
    ELSE LET x == CHOOSE y \in S : TRUE
         IN  RAdd(f[x], RSum(f, S \ {x}))

InUnit(x) == RLe(Zero, x) /\ RLe(x, One)

\* the effective weight map of the call in sc
EffWeights == get_weights_for_class(sc.asset_class, sc.weights)

\* the raw value the call in sc reads for item i of the effective weight map
RawOf(i) ==
    LET indicator == EffWeights[i][1]
        fields == get_indicators_for_class(sc.asset_class)
        field == IF indicator \in DOMAIN fields THEN fields[indicator] ELSE indicator
    IN  IF field \in DOMAIN sc.stock_data THEN sc.stock_data[field] ELSE None

NormOf(i) == normalize_indicator_by_class(RawOf(i), EffWeights[i][1], sc.asset_class)

\* the items of the effective weight map with weight > 0
Weighted == {i \in 1..Len(EffWeights) : RLt(Zero, EffWeights[i][2])}

\* the items that are usable: weight > 0, a raw value, a normalized value
Usable == {i \in Weighted : RawOf(i) # None /\ NormOf(i) # None}

\* C1: the score is 100 * SUM(normalized_i * w_i) / SUM(w_i) over the usable
\* indicators of the effective weight map; a missing indicator is in neither sum.
C1_ScoreIsRenormalizedMean ==
    (sc.done /\ Usable # {}) =>
        sc.ret = RMul(R(100, 1),
                      RDiv(RSum([i \in Usable |-> RMul(NormOf(i), EffWeights[i][2])], Usable),
                           RSum([i \in Usable |-> EffWeights[i][2]], Usable)))

\* a scored asset that misses at least three of its weighted indicators and
\* whose score is not the zero-filled one
C1_Witness ==
    /\ sc.done /\ sc.ret # None
    /\ Cardinality(Weighted \ Usable) >= 3
    /\ Cardinality(Usable) >= 2
    /\ sc.ret # RMul(R(100, 1),
                      RDiv(RSum([i \in Usable |-> RMul(NormOf(i), EffWeights[i][2])], Usable),
                           RSum([i \in Weighted |-> EffWeights[i][2]], Weighted)))

\* C2: the score is None exactly when no indicator of the effective weight map
\* is usable.
C2_NoneIffNothingUsable ==
    sc.done => (sc.ret = None <=> Usable = {})

\* an asset that has values, under a map with positive weights, none of which
\* is usable
C2_Witness ==
    /\ sc.done /\ sc.ret = None
    /\ Weighted # {}
    /\ \E i \in Weighted : RawOf(i) # None

----------------------------------------------------------------------------
(* Properties of the normalizer *)

Calls == {nz.calls[i] : i \in 1..Len(nz.calls)}

\* C4: normalize_indicator_by_class returns None or a number in [0, 1].
C4_NormalizedInUnitInterval ==
    \A c \in Calls : c.ret = None \/ InUnit(c.ret)

\* a negative value of an inverted indicator scored 1 and a value above the
\* range scored 0
C4_Witness ==
    /\ nz.indicator_type = "pl"
    /\ \E c \in Calls : c.value # None /\ RLt(c.value, Zero) /\ c.ret = One
    /\ \E c \in Calls : c.value # None /\ RLt(R(50, 1), c.value) /\ c.ret = Zero

Clamp01(x) == IF RLe(x, Zero) THEN Zero ELSE IF RLe(One, x) THEN One ELSE x

\* the range table of a class
RangeTable(asset_class) ==
    CASE asset_class = "fii" -> get_fii_indicator_limits
      [] asset_class = "etf" -> get_etf_indicator_limits
      [] OTHER -> INDICATOR_LIMITS

C7_NoneIffNoValueOrNoRange ==
    \A c \in Calls :
        c.ret = None <=>
            (c.value = None \/ nz.indicator_type \notin DOMAIN RangeTable(nz.asset_class))

\* roic of a stock, with a value, is not normalized, and neither is a None
C7_Witness ==
    /\ nz.indicator_type = "roic" /\ nz.asset_class = "acao"
    /\ \E c \in Calls : c.value # None /\ c.ret = None
    /\ \E c \in Calls : c.value = None /\ c.ret = None

----------------------------------------------------------------------------
(* Properties of the classifier *)

\* the ticker as classify_asset reads it
Normalized == strip(upper(cl.ticker))

\* the ETF rule matches the ticker
EtfMatch(ticker) ==
    \/ ticker \in ETF_TICKERS
    \/ \E prefix \in ETF_PREFIXES :
           Len(prefix) <= Len(ticker) /\ \A i \in 1..Len(prefix) : ticker[i] = prefix[i]

\* the last n characters of the ticker
Suffix(ticker, n) ==
    IF Len(ticker) < n THEN <<>> ELSE [i \in 1..n |-> ticker[Len(ticker) - n + i]]

\* C8: a ticker on the ETF list or with an ETF prefix is classified 'etf',
\* whatever its suffix.
C8_EtfRuleFirst ==
    (EtfMatch(cl.ticker) \/ EtfMatch(Normalized)) =>
        \A i \in 1..Len(cl.calls) : cl.calls[i] = "etf"

\* a ticker with an ETF prefix and a BDR suffix has been classified
C8_Witness ==
    /\ cl.ticker = <<"B", "O", "V", "A", "3", "4">>
    /\ Len(cl.calls) > 0
    /\ cl.calls[1] = "etf"

\* C9: a ticker the ETF rule does not match is 'bdr' when it ends in 34, 35 or
\* 33, else 'fii' when it ends in 11, else 'acao'.
C9_SuffixRules ==
    ~EtfMatch(Normalized) =>
        \A i \in 1..Len(cl.calls) :
            cl.calls[i] =
                IF Suffix(Normalized, 2) \in {<<"3", "4">>, <<"3", "5">>, <<"3", "3">>} THEN "bdr"
                ELSE IF Suffix(Normalized, 2) = <<"1", "1">> THEN "fii"
                ELSE "acao"

\* XPTO11 has been classified 'fii'
C9_Witness ==
    /\ cl.ticker = <<"X", "P", "T", "O", "1", "1">>
    /\ Len(cl.calls) > 0
    /\ cl.calls[1] = "fii"

\* C10: every call returns one of the four classes, and all the calls on one
\* ticker return the same class, whatever the table holds when they are made.
C10_TotalAndPure ==
    /\ \A i \in 1..Len(cl.calls) : cl.calls[i] \in {"acao", "fii", "etf", "bdr"}
    /\ \A i, j \in 1..Len(cl.calls) : cl.calls[i] = cl.calls[j]

\* XPTO11 was classified twice, with the same result, and its row holds
\* another class
C10_Witness ==
    /\ cl.ticker = <<"X", "P", "T", "O", "1", "1">>
    /\ Len(cl.calls) >= 2
    /\ cl.calls[1] = "fii" /\ cl.calls[2] = "fii"
    /\ cl.ticker \in DOMAIN stocks /\ stocks[cl.ticker].asset_class = "acao"


----------------------------------------------------------------------------
(* Properties of update_ranking *)

\* the rows with a score
Scored == {t \in DOMAIN stocks : stocks[t].score_final # None}

\* the last operation on the table ended with a run of update_ranking
AfterRecompute == rr.op \in {"update_ranking", "update_batch"}

\* the code points of the characters of a ticker, in ascending order
Collation == <<"0", "1", "2", "3", "4", "5", "6", "7", "8", "9">> \o UpperOf

Ord(c) == CHOOSE i \in 1..Len(Collation) : Collation[i] = c

\* a < b for two tickers, as strings
RECURSIVE TickerLt(_, _)
TickerLt(a, b) ==
    IF b = <<>> THEN FALSE
    ELSE IF a = <<>> THEN TRUE
    ELSE IF Ord(Head(a)) # Ord(Head(b)) THEN Ord(Head(a)) < Ord(Head(b))
    ELSE TickerLt(Tail(a), Tail(b))

\* rank_posicao over the rows with a score is a bijection onto 1..N
DenseRanks ==
    /\ \A t \in Scored : stocks[t].rank_posicao # None
    /\ {stocks[t].rank_posicao : t \in Scored} = {R(i, 1) : i \in 1..Cardinality(Scored)}
    /\ \A t, u \in Scored : t # u => stocks[t].rank_posicao # stocks[u].rank_posicao

\* a higher score has a smaller rank
RanksFollowScores ==
    \A t, u \in Scored :
        RLt(stocks[u].score_final, stocks[t].score_final) =>
            RLt(stocks[t].rank_posicao, stocks[u].rank_posicao)

\* rows of equal score are ranked in ascending ticker order
TiesByTicker ==
    \A t, u \in Scored :
        (stocks[t].score_final = stocks[u].score_final /\ TickerLt(t, u)) =>
            RLt(stocks[t].rank_posicao, stocks[u].rank_posicao)

\* C11: after update_ranking the ranks of the rows with a score are exactly 1..N,
\* a higher score has a smaller rank, and rows of equal score are ranked in
\* ascending ticker order.
C11_DenseRanksTiesByTicker ==
    AfterRecompute => (DenseRanks /\ RanksFollowScores /\ TiesByTicker)

\* the part of C11 that the code keeps: dense ranks that follow the scores
C11_DenseRanksFollowScores ==
    AfterRecompute => (DenseRanks /\ RanksFollowScores)

\* C12: in every state of the table that the updater and the callers of
\* update_ranking can produce, in any interleaving, a row with a rank_posicao has
\* a score_final.
C12_RankOnlyWithScore ==
    \A t \in DOMAIN stocks :
        stocks[t].rank_posicao # None => stocks[t].score_final # None

\* a completed run under the weight map of the request has passed over a row it
\* could not score, next to a ranked row
C12_Witness ==
    /\ rr.op = "update_ranking" /\ rr.weights \in RequestWeightMaps
    /\ rr.updated_count = 1
    /\ \A p \in DOMAIN sw : sw[p].pc = "idle"
    /\ \E t, u \in DOMAIN stocks :
           /\ stocks[t].rank_posicao # None
           /\ stocks[u].score_final = None /\ stocks[u].rank_posicao = None
           /\ stocks[u].div_yield # None

\* the effective weight map and the field names update_ranking uses for a row
RowWeights(row, weights) ==
    get_weights_for_class(GetOr(to_dict(row), "asset_class", "acao"), weights)
RowIndicators(row) == get_indicators_for_class(GetOr(to_dict(row), "asset_class", "acao"))

\* the row has a weighted indicator, and every weighted indicator of the row is missing
AllWeightedMissing(row, weights) ==
    /\ \E i \in 1..Len(RowWeights(row, weights)) : RLt(Zero, RowWeights(row, weights)[i][2])
    /\ \A i \in 1..Len(RowWeights(row, weights)) :
           RLt(Zero, RowWeights(row, weights)[i][2]) =>
               raw_value(to_dict(row), RowIndicators(row), RowWeights(row, weights)[i][1]) = None

\* C13: a run of update_ranking that finds a scored and ranked row with all of
\* its weighted indicators missing leaves the row with score_final = None and
\* rank_posicao = None.
C13_RegressedRowIsUnscored ==
    [][rr'.op = "update_ranking" =>
          \A t \in DOMAIN stocks :
              (/\ stocks[t].score_final # None
               /\ stocks[t].rank_posicao # None
               /\ AllWeightedMissing(stocks[t], rr'.weights)) =>
                  (stocks'[t].score_final = None /\ stocks'[t].rank_posicao = None)]_vars

\* C14: a run of update_ranking that directly follows a run with the same weights
\* changes no score_final and no rank_posicao and returns the same count.
C14_RecomputeIdempotent ==
    [][(rr.op = "update_ranking" /\ rr'.op = "update_ranking" /\ rr'.weights = rr.weights) =>
          /\ \A t \in DOMAIN stocks :
                 /\ stocks'[t].score_final = stocks[t].score_final
                 /\ stocks'[t].rank_posicao = stocks[t].rank_posicao
          /\ rr'.updated_count = rr.updated_count]_vars

\* the row has a weighted indicator with a value that normalizes
Scoreable(row, weights) ==
    \E i \in 1..Len(RowWeights(row, weights)) :
        /\ RLt(Zero, RowWeights(row, weights)[i][2])
        /\ raw_value(to_dict(row), RowIndicators(row), RowWeights(row, weights)[i][1]) # None
        /\ normalize_indicator_by_class(
               raw_value(to_dict(row), RowIndicators(row), RowWeights(row, weights)[i][1]),
               RowWeights(row, weights)[i][1],
               GetOr(to_dict(row), "asset_class", "acao")) # None

\* C15: update_ranking passes over the rows it cannot score, writes a score to
\* every row it can score, and returns the number of rows it scored in this
\* run; that is 0 when no row can be scored.
C15_CountsScoredRows ==
    [][rr'.op = "update_ranking" =>
          /\ rr'.updated_count =
                 Cardinality({t \in DOMAIN stocks : Scoreable(stocks[t], rr'.weights)})
          /\ \A t \in DOMAIN stocks :
                 IF Scoreable(stocks[t], rr'.weights)
                 THEN stocks'[t].score_final # None
                 ELSE stocks'[t].score_final = stocks[t].score_final]_vars

\* a run over three rows that scored some of them and left a row without a score
C15_Witness ==
    /\ rr.op = "update_ranking"
    /\ Cardinality(DOMAIN stocks) = 3
    /\ rr.updated_count \in {1, 2}
    /\ \E t \in DOMAIN stocks : stocks[t].score_final = None

----------------------------------------------------------------------------
(* Properties of update_ranking under concurrent callers *)

\* the run of caller p has committed the new score_final of row t (line 154) and
\* has not yet committed the ranks (line 169)
HalfWritten(p, t) ==
    sw[p].pc \in {"positions", "positions_commit"} /\ t \in sw[p].dirty

\* C16: no state of the table, which a reader may see, holds a row whose
\* score_final a run of update_ranking has rewritten while the ranks of that run
\* are not yet written.
C16_ScoreAndRankWrittenTogether ==
    \A p \in DOMAIN sw, t \in DOMAIN stocks : ~HalfWritten(p, t)

\* C17: when update_ranking is called from two places at once, the runs do not
\* interleave, so that once they have returned the ranks of the rows with a score
\* are 1..N without duplicates or gaps.
C17_DenseRanksAfterConcurrentRuns ==
    (rr.op = "update_ranking" /\ \A p \in DOMAIN sw : sw[p].pc = "idle") => DenseRanks

\* C18: update_ranking commits its scores in batches during the loop, so that a
\* run that fails part-way, with rows still to score, leaves in the table a
\* score it has computed.
C18_ProgressSurvivesFailure ==
    [][\A p \in DOMAIN sw :
          (/\ sw[p].pc = "loop" /\ sw'[p].pc = "idle"
           /\ sw[p].todo # {} /\ sw[p].dirty # {}) =>
              \E t \in sw[p].dirty : stocks'[t].score_final = sw[p].rows[t].score_final]_vars

----------------------------------------------------------------------------
(* Properties of get_current_ranking *)

\* the records of the pages 1..n of the client's log, in the order fetched
RECURSIVE Concat(_, _)
Concat(pages, n) == IF n = 0 THEN <<>> ELSE Concat(pages, n - 1) \o pages[n]

\* the client has fetched every page
AllPagesFetched == rd # NoPages /\ Len(rd.pages) = MaxPage

\* the rows without a score and with a positive price
PricedUnscored ==
    {t \in DOMAIN stocks : /\ stocks[t].score_final = None
                           /\ stocks[t].cotacao # None
                           /\ RLt(Zero, stocks[t].cotacao)}

\* no two rows have the same score, and no two rows without a score the same price
NoTies ==
    /\ \A t, u \in Scored : t # u => stocks[t].score_final # stocks[u].score_final
    /\ \A t, u \in PricedUnscored : t # u => stocks[t].cotacao # stocks[u].cotacao

\* ticker t comes before ticker u in the ranked view
ViewBefore(t, u) ==
    \/ t \in Scored /\ u \notin Scored
    \/ t \in Scored /\ u \in Scored /\ RLt(stocks[u].score_final, stocks[t].score_final)
    \/ t \notin Scored /\ u \notin Scored /\ RLt(stocks[u].cotacao, stocks[t].cotacao)

\* the tickers of a sequence of records are those of S, each once, in the order
\* of the ranked view
IsRankedView(records, S) ==
    /\ Len(records) = Cardinality(S)
    /\ {records[i].ticker : i \in 1..Len(records)} = S
    /\ \A i, j \in 1..Len(records) :
           i < j => ViewBefore(records[i].ticker, records[j].ticker)

\* C19: for a fixed table and page size, the pages 1, 2, 3, ... of
\* get_current_ranking put end to end hold every row with a score once, in
\* descending order of score, then every row without a score and with a positive
\* price once, in descending order of price.  Stated for tables without ties,
\* where that order is unique.
C19_PagesPartitionTheRanking ==
    (AllPagesFetched /\ NoTies) =>
        IsRankedView(Concat(rd.pages, MaxPage), Scored \cup PricedUnscored)

\* the records the client has been returned
Returned ==
    IF rd = NoPages THEN {}
    ELSE UNION {{rd.pages[n][i] : i \in 1..Len(rd.pages[n])} : n \in 1..Len(rd.pages)}

----------------------------------------------------------------------------
(* Properties of the read operations *)

\* the rows of the table that pass every criterion of a filter request
Matching(args) ==
    {t \in rows_with_score(stocks) :
        /\ args.min_dy # None => _meets_criteria(stocks[t].div_yield, args.min_dy, None)
        /\ args.max_pl # None => _meets_criteria(stocks[t].pl, None, args.max_pl)
        /\ args.max_pvp # None => _meets_criteria(stocks[t].pvp, None, args.max_pvp)
        /\ args.min_roe # None => _meets_criteria(stocks[t].roe, args.min_roe, None)
        /\ sector_given(args.sector) => stocks[t].setor = args.sector}

\* C21: filter_stocks returns only rows of the table with a score_final; every
\* returned row satisfies every criterion of the request (div_yield >= min_dy,
\* pl <= max_pl, pvp <= max_pvp, roe >= min_roe, setor equal to a non-empty
\* sector), a row whose indicator is NULL failing a criterion on it; the result is
\* in descending score order and has at most limit rows (limit >= 0).
C21_FilterReturnsMatchingScored ==
    qr.op = "filter_stocks" =>
        /\ \A i \in 1..Len(qr.ret) :
               /\ qr.ret[i].ticker \in DOMAIN stocks
               /\ qr.ret[i] = stocks[qr.ret[i].ticker]
               /\ qr.ret[i].score_final # None
               /\ qr.ret[i].ticker \in Matching(qr.args)
        /\ \A i, j \in 1..Len(qr.ret) :
               i < j => RGe(qr.ret[i].score_final, qr.ret[j].score_final)
        /\ Len(qr.ret) <= qr.args.limit

\* a request with a minimum dividend yield and the limit 1 on a table with two
\* matching rows, a scored row whose div_yield is NULL and a matching row
\* without a score
C21_Witness ==
    /\ qr.op = "filter_stocks"
    /\ qr.args.min_dy # None /\ qr.args.limit = 1 /\ Len(qr.ret) = 1
    /\ Cardinality(Matching(qr.args)) = 2
    /\ \E t \in rows_with_score(stocks) : stocks[t].div_yield = None

\* the rows with a score of one sector
ScoredOfSector(name) == {t \in Scored : sector_name(stocks[t]) = name}

\* the mean of the scores of a set of rows with a score
MeanScore(S) == RDiv(sum_scores(stocks, S), R(Cardinality(S), 1))

\* C22: get_ranking_statistics groups only the rows with a score: the sectors
\* returned are the sectors of the scored rows, the count, mean and maximum of a
\* sector are taken over exactly the scores of its scored rows (a row without a
\* score adds nothing to the count and is not averaged in as 0), and the sectors
\* come in descending order of mean.
C22_SectorStatisticsOverScoredRows ==
    qr.op = "get_ranking_statistics" =>
        /\ {qr.ret.sectors[i].name : i \in 1..Len(qr.ret.sectors)}
               = {sector_name(stocks[t]) : t \in Scored}
        /\ \A i \in 1..Len(qr.ret.sectors) :
               /\ qr.ret.sectors[i].count = Cardinality(ScoredOfSector(qr.ret.sectors[i].name))
               /\ "avg_score" \in DOMAIN qr.ret.sectors[i]
               /\ qr.ret.sectors[i].avg_score = MeanScore(ScoredOfSector(qr.ret.sectors[i].name))
               /\ qr.ret.sectors[i].top_score
                      = max_score(stocks, ScoredOfSector(qr.ret.sectors[i].name))
        /\ \A i, j \in 1..Len(qr.ret.sectors) :
               i < j => RGe(qr.ret.sectors[i].avg_score, qr.ret.sectors[j].avg_score)

\* the positions of a list of tickers whose ticker has a row
Found(tickers) == {i \in 1..Len(tickers) : tickers[i] \in DOMAIN stocks}

\* C23: compare_stocks completes without an error for any list of tickers, also
\* one that mixes rows with and without a score; it returns the rows found, the
\* tickers without a row being left out, sorted by score_final descending with
\* every row without a score after all the rows with one.
C23_CompareSortsNilScoredLast ==
    qr.op = "compare_stocks" =>
        /\ qr.ret.raised = ""
        /\ Len(qr.ret.data) = Cardinality(Found(qr.args))
        /\ {qr.ret.data[i].ticker : i \in 1..Len(qr.ret.data)}
               = {qr.args[i] : i \in Found(qr.args)}
        /\ \A i \in 1..Len(qr.ret.data) :
               qr.ret.data[i] = to_dict(stocks[qr.ret.data[i].ticker])
        /\ \A i, j \in 1..Len(qr.ret.data) :
               i < j => \/ qr.ret.data[j].score_final = None
                        \/ /\ qr.ret.data[i].score_final # None
                           /\ RGe(qr.ret.data[i].score_final, qr.ret.data[j].score_final)

----------------------------------------------------------------------------
(* Properties of the score of the classes with fixed weights *)

\* C24: the score of a 'fii' or 'etf' asset does not depend on the weights of the
\* caller: the call made under one weight map returns what the call on the same
\* asset data returns under every other weight map.
C24_FixedWeightsForFiiAndEtf ==
    (sc.done /\ sc.asset_class \in {"fii", "etf"}) =>
        \A weights \in WeightMaps :
            calculate_score_by_class(sc.stock_data, weights, sc.asset_class) = sc.ret

\* a 'fii' scored under the empty weight map, under which an 'acao' with the
\* same data has no score
C24_Witness ==
    /\ sc.done /\ sc.asset_class = "fii" /\ sc.weights = <<>> /\ sc.ret # None
    /\ calculate_score_by_class(sc.stock_data, sc.weights, "acao") = None

----------------------------------------------------------------------------
(* The worked examples *)

\* x is the decimal d/10 when rounded to one decimal place
About(x, d) == x # None /\ RLe(R(2 * d - 1, 20), x) /\ RLt(x, R(2 * d + 1, 20))

\* the call is the one of the first example: the 'acao' with P/L 5.5 and dividend
\* yield 0.132 under the weights dy 0.25, pl 0.20 and others whose indicators are
\* missing
StockExample ==
    /\ sc.asset_class = "acao" /\ sc.stock_data \in ExampleData("acao")
    /\ sc.weights = DEFAULT_WEIGHTS

\* the call is the one of the second example: the 'fii' with dividend yield 0.10
\* and P/VP 1.0
FiiExample == sc.asset_class = "fii" /\ sc.stock_data \in ExampleData("fii")

\* the normalized values of the examples: 0.66 and 0.89, 0.40 and 0.50
ExampleNormalized ==
    /\ StockExample =>
           /\ normalize_indicator_by_class(sc.stock_data.div_yield, "dy", "acao") = R(66, 100)
           /\ normalize_indicator_by_class(sc.stock_data.pl, "pl", "acao") = R(89, 100)
    /\ FiiExample =>
           /\ normalize_indicator_by_class(sc.stock_data.div_yield, "dy", "fii") = R(40, 100)
           /\ normalize_indicator_by_class(sc.stock_data.pvp, "pvp", "fii") = R(50, 100)

\* C25: the worked examples hold: the 'acao' scores about 75.8 (dy normalized
\* 0.66, pl normalized 0.89) and the 'fii' scores about 45.7 (dy normalized 0.40,
\* pvp normalized 0.50, fixed weights 0.40 and 0.30).
C25_WorkedExamples ==
    sc.done =>
        /\ ExampleNormalized
        /\ StockExample => About(sc.ret, 758)
        /\ FiiExample => About(sc.ret, 457)

\* C25 with the scores that the quoted normalized values and weights give:
\* (0.25 * 0.66 + 0.20 * 0.89) / 0.45 * 100 = 76.2 and
\* (0.40 * 0.40 + 0.30 * 0.50) / 0.70 * 100 = 44.3, to one decimal place
C25_WorkedExamplesRecomputed ==
    sc.done =>
        /\ ExampleNormalized
        /\ StockExample => About(sc.ret, 762)
        /\ FiiExample => About(sc.ret, 443)

\* the call of the first example has returned
C25_Witness == sc.done /\ StockExample /\ sc.ret = R(3430, 45)

----------------------------------------------------------------------------
(* Properties of the writers of the table *)

\* a row has the class of its ticker
Classified(row) == row.asset_class = classify_asset(stocks, row.ticker)

\* the score of a row under the class of its ticker
ScoreAsClassified(row, weights) ==
    calculate_score_by_class(to_dict(row), weights, classify_asset(stocks, row.ticker))

\* C26: update_ranking classifies the rows that lack a class.  asset_class is
\* written by nothing but a classifier, so a row whose class is not the class of
\* its ticker has never been classified: after update_ranking no such row is
\* left, and the score written in the run is the score under the class of the
\* ticker.
C26_RecomputeClassifiesUnclassified ==
    AfterRecompute =>
        \A t \in DOMAIN stocks :
            /\ Classified(stocks[t])
            /\ ScoreAsClassified(stocks[t], rr.weights) # None =>
                   stocks[t].score_final = ScoreAsClassified(stocks[t], rr.weights)

----------------------------------------------------------------------------
(* Properties of the requests for new weights *)

\* the sum of the weights of a request over the required fields it has
RECURSIVE RequestSum(_, _)
RequestSum(request, i) ==
    IF i > Len(required_fields) THEN Zero
    ELSE RAdd(IF required_fields[i] \in DOMAIN request THEN request[required_fields[i]] ELSE Zero,
              RequestSum(request, i + 1))

\* a request that is to be rejected: a required field is missing, a weight is
\* negative, or the weights do not sum to 1.0 within 0.01
Invalid(request) ==
    \/ \E i \in 1..Len(required_fields) : required_fields[i] \notin DOMAIN request
    \/ \E f \in DOMAIN request : RLt(request[f], Zero)
    \/ RLt(R(1, 100), RAbs(RSub(RequestSum(request, 1), One)))

\* the sum of a weight map
RECURSIVE WeightSum(_, _)
WeightSum(weights, i) ==
    IF i > Len(weights) THEN Zero ELSE RAdd(weights[i][2], WeightSum(weights, i + 1))

\* a weight map sums to 1.0 within 0.01 and has no negative entry
ValidWeights(weights) ==
    /\ RLe(RAbs(RSub(WeightSum(weights, 1), One)), R(1, 100))
    /\ \A i \in 1..Len(weights) : RGe(weights[i][2], Zero)

\* the step is a request for new weights
WeightRequestStep == qr'.op \in {"update_weights", "update_config"}

\* C27, first part: the weight map of every run of update_ranking sums to 1.0
\* within 0.01 and has no negative entry.
C27_ValidWeightsReachRecompute ==
    rr.op \in {"update_ranking", "update_batch"} => ValidWeights(rr.weights)

\* C27: the weight map of every run of update_ranking sums to 1.0 within 0.01
\* and has no negative entry, and a request to update_weights or update_config
\* with a missing required field, a negative weight or a sum outside 1.0 +/- 0.01
\* is rejected: update_ranking is not run and no score_final and no rank_posicao
\* changes.
C27_InvalidWeightsRejected ==
    [][WeightRequestStep =>
          /\ rr'.op \in {"update_ranking", "update_batch"} => ValidWeights(rr'.weights)
          /\ Invalid(qr'.args) =>
                 /\ ~qr'.ret.accepted
                 /\ rr' = rr
                 /\ \A t \in DOMAIN stocks :
                        /\ stocks'[t].score_final = stocks[t].score_final
                        /\ stocks'[t].rank_posicao = stocks[t].rank_posicao]_vars

\* C27 for update_weights alone
C27_ApiRejectsInvalidWeights ==
    [][qr'.op = "update_weights" =>
          /\ rr'.op \in {"update_ranking", "update_batch"} => ValidWeights(rr'.weights)
          /\ Invalid(qr'.args) =>
                 /\ ~qr'.ret.accepted /\ qr'.ret.status = 400
                 /\ rr' = rr
                 /\ stocks' = stocks]_vars

\* the step is a run of RankingService.update_ranking, called by a client or at
\* the end of a batch of the updater
RecomputeStep == rr'.op \in {"update_ranking", "update_batch"}

\* C28: only RankingService.update_ranking writes score_final and rank_posicao:
\* a step of any other operation (the daily update job, a maintenance script, a
\* migration) leaves the score_final and the rank_posicao of every row as they
\* were.
C28_OnlyUpdateRankingWritesScores ==
    [][~RecomputeStep =>
          \A t \in DOMAIN stocks :
              /\ stocks'[t].score_final = stocks[t].score_final
              /\ stocks'[t].rank_posicao = stocks[t].rank_posicao]_vars

\* the part of C28 that the code keeps: the migration that classifies the rows
\* writes no score_final and no rank_posicao
C28_ClassifierWritesNoScores ==
    [][rr'.op = "populate_asset_class" =>
          \A t \in DOMAIN stocks :
              /\ stocks'[t].score_final = stocks[t].score_final
              /\ stocks'[t].rank_posicao = stocks[t].rank_posicao]_vars

\* the score of a row under the default weights and the configured ranges
DefaultScore(row) == calculate_stock_score(to_dict(row), DEFAULT_WEIGHTS)

\* a row has one of the indicators of the default weights
HasDefaultIndicator(row) ==
    \E i \in 1..Len(DEFAULT_WEIGHTS) :
        raw_value(to_dict(row), get_indicators_for_class(row.asset_class),
                  DEFAULT_WEIGHTS[i][1]) # None

\* C29: the ranking step of the daily update job leaves every row with the score
\* that calculate_stock_score gives under the default weights and the configured
\* ranges, so that every 'acao' or 'bdr' row with one of these indicators has a
\* score_final, and the rows with a score are ranked 1..N by descending score.
C29_DailyJobScoresAsRecompute ==
    rr.op = "run_full_update" =>
        /\ \A t \in DOMAIN stocks :
               /\ DefaultScore(stocks[t]) # None =>
                      stocks[t].score_final = DefaultScore(stocks[t])
               /\ (stocks[t].asset_class \in {"acao", "bdr"} /\ HasDefaultIndicator(stocks[t])) =>
                      stocks[t].score_final # None
        /\ DenseRanks /\ RanksFollowScores

\* the part of C29 that the code keeps: the rows with a score are ranked 1..N by
\* descending score
C29_DailyJobRanksDense ==
    rr.op = "run_full_update" => (DenseRanks /\ RanksFollowScores)

\* the batches from the from-th to the to-th one, joined
RECURSIVE batches_joined(_, _, _)
batches_joined(batches, from, to) ==
    IF to < from THEN <<>> ELSE batches_joined(batches, from, to - 1) \o batches[to]

IsPrefixOf(s, t) == Len(s) <= Len(t) /\ s = SubSeq(t, 1, Len(s))

\* the batches of the c-th cycle taken so far, joined
CycleTaken(updater, c) ==
    batches_joined(updater.batches, (c - 1) * cycle_calls(updater) + 1,
                   IF c * cycle_calls(updater) < Len(updater.batches)
                   THEN c * cycle_calls(updater) ELSE Len(updater.batches))

\* C30: from a fresh ContinuousUpdater, every batch that get_next_batch returns is
\* non-empty and has at most batch_size tickers; the batches of each cycle of
\* ceil(|all_tickers| / batch_size) consecutive calls, joined, are all_tickers in
\* its order (every ticker once, the queue being refilled when exhausted), and
\* the batches of the cycle in progress are a prefix of it.
C30_BatchesCoverEachCycle ==
    cu # NoUpdater =>
        /\ \A i \in 1..Len(cu.batches) :
               cu.batches[i] # <<>> /\ Len(cu.batches[i]) <= cu.batch_size
        /\ \A c \in 1..Len(cu.batches) :
               /\ IsPrefixOf(CycleTaken(cu, c), cu.all_tickers)
               /\ c * cycle_calls(cu) <= Len(cu.batches) => CycleTaken(cu, c) = cu.all_tickers

\* the updater of __init__ has taken the six batches of a cycle, its queue has
\* been refilled and the first batch of the second cycle is PETR4, VALE3, ITUB4;
\* the quote of PETR4 has been written
C30_Witness ==
    /\ cu # NoUpdater
    /\ cu.all_tickers = all_tickers /\ cu.batch_size = batch_size
    /\ Len(cu.batches) = cycle_calls(cu) + 1
    /\ last_batch(cu) = SubSeq(all_tickers, 1, batch_size)
    /\ Len(cu.update_queue) = Len(all_tickers) - batch_size
    /\ rr.op = "update_continuous_cycle"
    /\ PETR4 \in DOMAIN stocks /\ stocks[PETR4].cotacao = R(31, 1)

\* a last batch shorter than batch_size closes a cycle, and the next call refills
C30_ShortLastBatch ==
    /\ cu # NoUpdater
    /\ Len(cu.batches) = cycle_calls(cu) + 1
    /\ Len(cu.batches[cycle_calls(cu)]) < cu.batch_size
    /\ Len(cu.batches[cycle_calls(cu)]) > 0
====
